---- MODULE Spec2Model ----
(***************************************************************************)
(* State-machine model of the EcoRecycle browser client (EcoRecycleApp):   *)
(* the points synchronisation (fetchPoints) with its throttle gate, the    *)
(* triggers that call it (init, the 10 s interval, window focus, the voice *)
(* award, a redemption), the rewards list and the activity history.        *)
(* One action is one run of the event loop: the synchronous code between   *)
(* two suspension points (await) of a handler.                             *)
(***************************************************************************)
EXTENDS Integers, Sequences, FiniteSets, TLC

\* ------------------------------------------------------------------ bounds
StartNow == 100000      \* Date.now() when the app is constructed (epoch ms)
MaxTicks == 2           \* the clock advances this many times
MaxInputs == 1          \* user inputs: voice activations, reward clicks, tab clicks
MaxFaults == 1          \* responses that are not the regular answer of the backend
SrvSaldo0 == 4          \* backend balance of the user at start
SrvTotal0 == 8          \* backend cumulative total of the user at start
MaxRows == 3            \* rows of a history the backend holds at start
MaxFrags == 2           \* fragments a detalle of the text pool is made of
MaxRepeats == 2         \* repeats of one input where a property is about repeating it
LiveTicks == 4          \* the clock advances this many times where the timer must fire twice
MaxPageTicks == 8       \* the clock of the login page advances this many times
MaxViewCalls == 3       \* calls of showView and goBack after the page has loaded

\* ------------------------------------------------------- program constants
THROTTLE_WINDOW == 8000     \* fetchPoints: now - _lastPointsFetch < 8000
POINTS_TIMER_MS == 10000    \* init: setInterval(..., 10000)
VOICE_DELAY_MS == 3000      \* toggleVoiceRecognition: setTimeout(..., 3000)
VOICE_POINTS == 4           \* recyclingData['lata de aluminio'].points
REDIRECT_DELAY_MS == 800    \* submit handlers: setTimeout(() => goToApp(), 800)
VIEW_TRANSITION_MS == 300   \* ViewManager: setTimeout(..., 300) of showView and hideView

\* The modelled clock advances by one throttle window: a call made before the
\* clock moves falls inside the window of the last dispatch, a call made after
\* it has moved is the first that falls outside.
TickMs == THROTTLE_WINDOW

\* The clock of the login page advances by a third of a view transition: a
\* second input can fall inside the transition the first one started.
PageTickMs == VIEW_TRANSITION_MS \div 3

\* ---------------------------------------------------------- JavaScript values
\* A JavaScript value as far as the code inspects it: a number, NaN, undefined
\* (also a missing property), null, or a string that is not a numeral.
Num(n) == [tag |-> "num", n |-> n]
NaN == [tag |-> "nan", n |-> 0]
Undefined == [tag |-> "undefined", n |-> 0]
Null == [tag |-> "null", n |-> 0]
Str == [tag |-> "str", n |-> 0]

\* a ?? b
Coalesce(a, b) == IF a.tag \in {"undefined", "null"} THEN b ELSE a

\* Number(v)
ToNumber(v) ==
  CASE v.tag = "num" -> v
    [] v.tag = "nan" -> NaN
    [] v.tag = "null" -> Num(0)
    [] v.tag = "undefined" -> NaN
    [] v.tag = "str" -> NaN

\* a < b on JavaScript numbers: false as soon as one side is NaN
JsLess(a, b) == a.tag = "num" /\ b.tag = "num" /\ a.n < b.n

\* a <= b
JsLeq(a, b) == a.tag = "num" /\ b.tag = "num" /\ a.n <= b.n

NoUser == "none"
UserMail == "user@eco"
Tabs == {"scanner", "history", "rewards"}

\* A text typed into a field, as a sequence of pieces: a run of spaces or a
\* word.  value.trim() drops the runs of spaces at both ends.
RECURSIVE TrimStart(_)
TrimStart(s) == IF s # <<>> /\ Head(s) = " " THEN TrimStart(Tail(s)) ELSE s

RECURSIVE TrimEnd(_)
TrimEnd(s) == IF s # <<>> /\ s[Len(s)] = " " THEN TrimEnd(SubSeq(s, 1, Len(s) - 1)) ELSE s

Trim(s) == TrimEnd(TrimStart(s))

\* The string a text of at most one word stands for.
TextValue(s) == IF s = <<>> THEN "" ELSE s[1]

\* The values of the forms of the login page a submit can find: every field
\* filled, and each way of leaving one blank or the confirmation different.
FilledMail == <<" ", UserMail, " ">>

RegisterForms ==
  { [form |-> "register", nombre |-> <<"ana">>, correo |-> FilledMail, password |-> <<"p1">>,
     confirm |-> <<"p1">>],
    [form |-> "register", nombre |-> <<" ">>, correo |-> FilledMail, password |-> <<"p1">>,
     confirm |-> <<"p1">>],
    [form |-> "register", nombre |-> <<"ana">>, correo |-> <<" ">>, password |-> <<"p1">>,
     confirm |-> <<"p1">>],
    [form |-> "register", nombre |-> <<"ana">>, correo |-> FilledMail, password |-> <<>>,
     confirm |-> <<>>],
    [form |-> "register", nombre |-> <<"ana">>, correo |-> FilledMail, password |-> <<"p1">>,
     confirm |-> <<"p2">>] }

LoginForms ==
  { [form |-> "login", nombre |-> <<>>, correo |-> FilledMail, password |-> <<"p1">>,
     confirm |-> <<>>],
    [form |-> "login", nombre |-> <<>>, correo |-> <<>>, password |-> <<"p1">>,
     confirm |-> <<>>],
    [form |-> "login", nombre |-> <<>>, correo |-> FilledMail, password |-> <<>>,
     confirm |-> <<>>] }

NoForm == [form |-> "none", nombre |-> <<>>, correo |-> <<>>, password |-> <<>>, confirm |-> <<>>]

\* The views setupViewManager registers, loginView being the one the page
\* shows; this.currentView = null of the ViewManager constructor.
ViewIds == {"loginView", "registerView", "successView"}
NoView == "null"

\* What d.toLocaleString() prints and new Date(text) reads back depends on the
\* locale of the browser:
\*   "monthFirst"  "2/3/1970, 10:00:00 AM": read back as printed
\*   "dayFirst"    "3/2/1970, 10:00:00": read back with the first number as the month
\*   "unreadable"  "3.2.1970, 10:00:00", "3/2/1970, 10:00:00 a. m.": Invalid Date
Locales == {"monthFirst", "dayFirst", "unreadable"}

\* --------------------------------------------------------------- backend data
\* GET /premios: the rewards the backend lists (nombre, puntos_necesarios, stock)
Premios ==
  << [nombre |-> "cine", puntos_necesarios |-> Num(4), stock |-> Num(2)],
     [nombre |-> "bono", puntos_necesarios |-> Num(8), stock |-> Undefined],
     [nombre |-> "lapiz", puntos_necesarios |-> Num(2), stock |-> Num(1)] >>

VARIABLES
  now,                \* Date.now()
  userEmail,          \* localStorage.getItem('userEmail'), NoUser when absent
  activeTab,          \* this.activeTab
  userPoints,         \* this.userPoints
  userPointsTotal,    \* this.userPointsTotal
  fetchingPoints,     \* this._fetchingPoints
  lastPointsFetch,    \* this._lastPointsFetch
  myRecyclingHistory, \* this.myRecyclingHistory
  serverHistory,      \* this.serverHistory
  rewards,            \* this.rewards
  isListening,        \* this.isListening
  initPc,             \* position of init()
  initWait,           \* the fetchPoints invocation init() awaits, 0 when none
  timerDue,           \* next firing of the setInterval timer, 0 while not set
  voiceTimers,        \* due times of the pending setTimeout callbacks of voice
  inflight,           \* fetchPoints invocations between their dispatch and their finally
  nextId,             \* number of the next fetchPoints invocation
  tasks,              \* suspended async handlers (voice award, claimReward, switchTab)
  nextTask,           \* number of the next suspended handler
  srvSaldo,           \* backend: balance of the user
  srvTotal,           \* backend: cumulative total of the user
  srvStock,           \* backend: stock of each reward
  srvHistory,         \* backend: history rows of the user, most recent first
  sent,               \* requests dispatched so far, per endpoint other than the two reads
  dispatchTimes,      \* Date.now() of every dispatched fetchPoints, in order
  balSrc,             \* invocation whose response userPoints was taken from
  totSrc,             \* invocation whose response userPointsTotal was taken from
  settled,            \* the fetchPoints invocation that settled last
  callResult,         \* what the fetchPoints call of this step did ("none": no call)
  faults,             \* responses so far that were not the regular answer
  shown,              \* what the last updatePointsDisplay() wrote
  rewardsShown,       \* what the last renderRewards() wrote
  historyShown,       \* what the last renderHistory() wrote
  clicks,             \* user inputs so far: voice activations, reward clicks, tab clicks
  orphaned,           \* invocations that settled by a rejection with their other read still pending
  locale,             \* the locale of the browser, as far as dates are printed and read
  histSettled,        \* the loadHistoryFromBackend request that settled last
  scanResult,         \* this.scanResult
  scanShown,          \* what the #scan-result panel holds and whether it is visible
  scanAlerts,         \* the alert() boxes the classification flow has raised, in order
  authReqs,           \* login page: submit handlers suspended in Api.request
  redirects,          \* login page: due times of the pending setTimeout(goToApp, 800)
  location,           \* login page: the page window.location names, "login" or "app"
  submitted,          \* login page: the form values the last submit handler read
  views,              \* ViewManager.views: display and isActive of every registered view
  currentView,        \* ViewManager.currentView, NoView while null
  viewHistory,        \* ViewManager.history
  viewTimers          \* ViewManager: the pending setTimeout callbacks, in order of creation

gateVars == <<fetchingPoints, lastPointsFetch>>
pointVars == <<userPoints, userPointsTotal, balSrc, totSrc>>
fetchVars == <<inflight, nextId, dispatchTimes>>
srvVars == <<srvSaldo, srvTotal, srvStock, srvHistory>>
uiVars == <<activeTab, myRecyclingHistory, serverHistory, rewards, isListening>>
initVars == <<initPc, initWait, timerDue>>
scanVars == <<scanResult, scanShown, scanAlerts>>
loginVars == <<authReqs, redirects, location, submitted>>
viewVars == <<views, currentView, viewHistory, viewTimers>>
pageVars == <<loginVars, viewVars>>

vars ==
  << now, userEmail, activeTab, userPoints, userPointsTotal, fetchingPoints,
     lastPointsFetch, myRecyclingHistory, serverHistory, rewards, isListening,
     initPc, initWait, timerDue, voiceTimers, inflight, nextId, tasks, nextTask,
     srvSaldo, srvTotal, srvStock, srvHistory, sent, dispatchTimes, balSrc, totSrc,
     settled, callResult, faults, shown, rewardsShown, historyShown, clicks,
     orphaned, locale, histSettled, scanResult, scanShown, scanAlerts, pageVars >>

Inputs == clicks.voice + clicks.claim + clicks.tab

NoSettled ==
  [id |-> 0, outcome |-> "none", cause |-> "none", saldoKind |-> "none",
   totalKind |-> "none", saldoVal |-> Undefined, totalVal |-> Undefined,
   pre |-> <<Num(0), Num(0)>>, post |-> <<Num(0), Num(0)>>]

NoResponse == [kind |-> "none", raw |-> <<>>]

\* this.scanResult = null of the constructor, and the object the voice callback
\* stores: { item: 'lata de aluminio', ...recyclingData['lata de aluminio'] }.
NullScan == [tag |-> "null", item |-> "", recyclable |-> FALSE, points |-> 0]

LataScan ==
  [tag |-> "object", item |-> "lata de aluminio", recyclable |-> TRUE, points |-> VOICE_POINTS]

\* The class body holds two methods named displayScanResult: the one of lines
\* 220-257 takes the answer of the classifier and calls fetchPoints() for a
\* result with points, the one of lines 326-350 takes no argument and prints
\* this.scanResult.  A later method of the same name replaces the earlier one,
\* so every call, that of sendImageForClassification included, runs the second.
\* It reads this.scanResult.binColor first: a TypeError while the field is null.
DisplayThrows(sr) == sr.tag = "null"

\* What displayScanResult() leaves in the panel: the item of this.scanResult,
\* its points when it is recyclable with points > 0, and the panel visible.
DisplayScanResult(sr) ==
  [visible |-> TRUE, item |-> sr.item,
   points |-> IF sr.recyclable /\ sr.points > 0 THEN sr.points ELSE 0]

NoHistSettled ==
  [id |-> 0, nth |-> 0, kind |-> "none", raw |-> <<>>, pre |-> <<>>, post |-> <<>>]

\* The fields the constructor assigns, before it calls this.init(), and the
\* rest of the state but the history the backend holds.
InitFields ==
  /\ now = StartNow
  /\ userEmail \in {NoUser, UserMail}
  /\ activeTab = "scanner"
  /\ userPoints = Num(0)
  /\ userPointsTotal = Num(0)
  /\ fetchingPoints = FALSE
  /\ lastPointsFetch = 0
  /\ myRecyclingHistory = <<>>
  /\ serverHistory = <<>>
  /\ rewards = <<>>
  /\ isListening = FALSE
  /\ initPc = "start"
  /\ initWait = 0
  /\ timerDue = 0
  /\ voiceTimers = <<>>
  /\ inflight = {}
  /\ nextId = 1
  /\ tasks = {}
  /\ nextTask = 1
  /\ srvSaldo = SrvSaldo0
  /\ srvTotal = SrvTotal0
  /\ srvStock = <<2, 1, 1>>
  /\ sent = [historial |-> 0, agregar |-> 0, canjear |-> 0, premios |-> 0, classify |-> 0, auth |-> 0]
  /\ dispatchTimes = <<>>
  /\ balSrc = 0
  /\ totSrc = 0
  /\ settled = NoSettled
  /\ callResult = "none"
  /\ faults = 0
  /\ orphaned = {}
  /\ locale \in Locales
  /\ histSettled = NoHistSettled
  /\ scanResult = NullScan
  /\ scanShown = [visible |-> FALSE, item |-> "", points |-> 0]
  /\ scanAlerts = <<>>
  /\ authReqs = {}
  /\ redirects = <<>>
  /\ location = "login"
  /\ submitted = NoForm
  /\ views = [v \in ViewIds |-> [display |-> IF v = "loginView" THEN "block" ELSE "none",
                                 isActive |-> v = "loginView"]]
  /\ currentView = NoView
  /\ viewHistory = <<>>
  /\ viewTimers = <<[due |-> StartNow, kind |-> "show", view |-> "loginView"]>>
  /\ shown = [bal |-> Num(0), tot |-> Num(0), balSrc |-> 0, totSrc |-> 0, fetching |-> FALSE,
              by |-> "none"]
  /\ rewardsShown = [bal |-> Num(0), enabled |-> {}]
  /\ historyShown = <<>>
  /\ clicks = [voice |-> 0, claim |-> 0, tab |-> 0, view |-> 0]

\* A new user: the backend holds no history row.
Init == InitFields /\ srvHistory = <<>>

\* ----------------------------------------------------------------- rendering
\* renderRewards(): the balance it prints and the buttons it leaves enabled
\* (disabled = sinPuntos || agotado).
RenderRewards(bal, rs) ==
  [bal |-> bal,
   enabled |-> {i \in 1..Len(rs) :
                  ~JsLess(bal, rs[i].points) /\ ~JsLeq(Coalesce(rs[i].stock, Num(0)), Num(0))}]

\* ------------------------------------------------------------------- texts
\* A text is a sequence of one-character strings.
Digits == <<"0", "1", "2", "3", "4", "5", "6", "7", "8", "9">>

IsDigit(c) == \E d \in 1..10 : Digits[d] = c

DigitVal(c) == (CHOOSE d \in 1..10 : Digits[d] = c) - 1

IsSpace(c) == c \in {" ", "\t", "\n"}

\* canonical form of a character under the regex flag i
Lower(c) ==
  CASE c = "P" -> "p" [] c = "U" -> "u" [] c = "N" -> "n" [] c = "T" -> "t"
    [] c = "O" -> "o" [] c = "S" -> "s" [] c = "G" -> "g" [] c = "A" -> "a"
    [] c = "Ó" -> "ó" [] OTHER -> c

\* String(n) of a non-negative integer, and of any integer
RECURSIVE NatText(_)
NatText(n) == IF n < 10 THEN <<Digits[n + 1]>> ELSE NatText(n \div 10) \o <<Digits[(n % 10) + 1]>>

IntText(n) == IF n < 0 THEN <<"-">> \o NatText(-n) ELSE NatText(n)

\* index after the longest run of digits (of spaces) of s that starts at i
RECURSIVE DigitsEnd(_, _)
DigitsEnd(s, i) == IF i <= Len(s) /\ IsDigit(s[i]) THEN DigitsEnd(s, i + 1) ELSE i

RECURSIVE SpacesEnd(_, _)
SpacesEnd(s, i) == IF i <= Len(s) /\ IsSpace(s[i]) THEN SpacesEnd(s, i + 1) ELSE i

\* parseInt(s[i..j-1], 10) of a run of digits
RECURSIVE ParseDigits(_, _, _)
ParseDigits(s, i, j) ==
  IF j <= i THEN 0 ELSE 10 * ParseDigits(s, i, j - 1) + DigitVal(s[j - 1])

\* the literal w matches s at i, letters compared under flag i
WordAt(s, i, w) ==
  /\ i >= 1
  /\ i + Len(w) - 1 <= Len(s)
  /\ \A k \in 1..Len(w) : Lower(s[i + k - 1]) = w[k]

\* /\+(\d+)\s*puntos?/i matches s starting at i
EscaneoAt_NoWord(s, i) ==
  /\ i <= Len(s) /\ s[i] = "+"
  /\ DigitsEnd(s, i + 1) > i + 1

EscaneoAt(s, i) ==
  /\ i <= Len(s) /\ s[i] = "+"
  /\ DigitsEnd(s, i + 1) > i + 1
  /\ WordAt(s, SpacesEnd(s, DigitsEnd(s, i + 1)), <<"p", "u", "n", "t", "o">>)

\* /gast[oó]\s+(\d+)\s*pts/i matches s starting at i
CanjeAt(s, i) ==
  /\ WordAt(s, i, <<"g", "a", "s", "t">>)
  /\ i + 4 <= Len(s) /\ Lower(s[i + 4]) \in {"o", "ó"}
  /\ SpacesEnd(s, i + 5) > i + 5
  /\ DigitsEnd(s, SpacesEnd(s, i + 5)) > SpacesEnd(s, i + 5)
  /\ WordAt(s, SpacesEnd(s, DigitsEnd(s, SpacesEnd(s, i + 5))), <<"p", "t", "s">>)

\* /([+-]?\d+)/ matches s starting at i
SignedAt(s, i) ==
  /\ i <= Len(s)
  /\ \/ IsDigit(s[i])
     \/ s[i] \in {"+", "-"} /\ i + 1 <= Len(s) /\ IsDigit(s[i + 1])

\* the reading of the last branch, taken for every accion
ParseDeltaFromDetalle_AnySigned(accion, detalle) ==
  IF \E i \in 1..Len(detalle) : SignedAt(detalle, i)
    THEN LET i == CHOOSE i \in 1..Len(detalle) :
                    SignedAt(detalle, i) /\ \A k \in 1..(i - 1) : ~SignedAt(detalle, k)
             d == IF IsDigit(detalle[i]) THEN i ELSE i + 1
             v == ParseDigits(detalle, d, DigitsEnd(detalle, d))
         IN  IF detalle[i] = "-" THEN 0 - v ELSE v
    ELSE 0

\* parseDeltaFromDetalle(accion, detalle); a missing detalle is the empty text
ParseDeltaFromDetalle(accion, detalle) ==
  IF Len(detalle) = 0 THEN 0
  ELSE IF accion = "escaneo" THEN
    IF \E i \in 1..Len(detalle) : EscaneoAt(detalle, i)
      THEN LET i == CHOOSE i \in 1..Len(detalle) :
                      EscaneoAt(detalle, i) /\ \A k \in 1..(i - 1) : ~EscaneoAt(detalle, k)
           IN  ParseDigits(detalle, i + 1, DigitsEnd(detalle, i + 1))
      ELSE 0
  ELSE IF accion = "canje" THEN
    IF \E i \in 1..Len(detalle) : CanjeAt(detalle, i)
      THEN LET i == CHOOSE i \in 1..Len(detalle) :
                      CanjeAt(detalle, i) /\ \A k \in 1..(i - 1) : ~CanjeAt(detalle, k)
               d == SpacesEnd(detalle, i + 5)
           IN  0 - ParseDigits(detalle, d, DigitsEnd(detalle, d))
      ELSE 0
  ELSE
    IF \E i \in 1..Len(detalle) : SignedAt(detalle, i)
      THEN LET i == CHOOSE i \in 1..Len(detalle) :
                      SignedAt(detalle, i) /\ \A k \in 1..(i - 1) : ~SignedAt(detalle, k)
               d == IF IsDigit(detalle[i]) THEN i ELSE i + 1
               v == ParseDigits(detalle, d, DigitsEnd(detalle, d))
           IN  IF detalle[i] = "-" THEN 0 - v ELSE v
      ELSE 0

\* ------------------------------------------------------------------- dates
\* An instant: month and day of the year the app runs in, and the milliseconds
\* since that day began.
Instant(mo, d, ms) == [mo |-> mo, d |-> d, ms |-> ms]

\* The instant of a value of Date.now(): the clock stays within the first day.
InstantOf(t) == Instant(1, 1, t)

\* A backend fecha: an ISO date, a text that is no date, or absent.
IsoDate(x) == [tag |-> "date", at |-> x]
NoDate == [tag |-> "absent"]
BadDate == [tag |-> "text"]

\* The fecha of a history entry: 'Ahora', or d.toLocaleString(), which prints
\* the two numbers of the date in the order of the locale and whole seconds.
Ahora == [tag |-> "ahora"]

LocaleText(x, loc) ==
  [tag |-> "locale", first |-> IF loc = "monthFirst" THEN x.mo ELSE x.d,
   second |-> IF loc = "monthFirst" THEN x.d ELSE x.mo, s |-> x.ms \div 1000,
   readable |-> loc # "unreadable"]

\* formatFecha(fechaISO)
FormatFecha(fecha, loc) == IF fecha.tag = "date" THEN LocaleText(fecha.at, loc) ELSE Ahora

\* h.fecha ? formatFecha(h.fecha) : 'Ahora'
EntryFecha(fecha, loc) == IF fecha.tag = "absent" THEN Ahora ELSE FormatFecha(fecha, loc)

\* new Date(entry.fecha) as a number, in seconds: NaN for 'Ahora', for a text
\* the parser cannot read and for a first number that is no month.
FechaTime(f) ==
  IF f.tag = "locale" /\ f.readable /\ f.first <= 12
    THEN Num((f.first * 31 + f.second) * 86400 + f.s)
    ELSE NaN

\* (a, b) => new Date(b.fecha) - new Date(a.fecha), a NaN result counting as 0
\* (the sort uses the sign of the result only)
CompareFecha(a, b) ==
  IF FechaTime(a.fecha).tag = "num" /\ FechaTime(b.fecha).tag = "num"
    THEN FechaTime(b.fecha).n - FechaTime(a.fecha).n
    ELSE 0

\* Array.prototype.sort with CompareFecha: a stable insertion sort
RECURSIVE InsertEntry(_, _)
InsertEntry(sorted, e) ==
  IF Len(sorted) = 0 THEN <<e>>
  ELSE IF CompareFecha(sorted[Len(sorted)], e) <= 0 THEN Append(sorted, e)
  ELSE Append(InsertEntry(SubSeq(sorted, 1, Len(sorted) - 1), e), sorted[Len(sorted)])

RECURSIVE SortByFecha(_)
SortByFecha(s) ==
  IF Len(s) = 0 THEN <<>>
  ELSE InsertEntry(SortByFecha(SubSeq(s, 1, Len(s) - 1)), s[Len(s)])

\* --------------------------------------------------------------- history
\* delta >= 0 ? `+${delta}` : `${delta}`
Badge_AlwaysPlus(delta) == <<"+">> \o IntText(delta)

Badge(delta) == IF delta >= 0 THEN <<"+">> \o IntText(delta) ELSE IntText(delta)

\* The entry loadHistoryFromBackend derives from a raw row h.
DeriveEntry(h, loc) ==
  [accion |-> h.accion, detalle |-> h.detalle,
   badge |-> Badge(ParseDeltaFromDetalle(h.accion, h.detalle)),
   delta |-> ParseDeltaFromDetalle(h.accion, h.detalle),
   fecha |-> EntryFecha(h.fecha, loc)]

\* (raw || []).map(...) followed by the sort
DeriveHistory(raw, loc) == SortByFecha([i \in 1..Len(raw) |-> DeriveEntry(raw[i], loc)])

\* renderHistory(): the rows it prints, the server history when it has any row
\* and else the local log mapped to the same shape.
LocalRow(h) ==
  [accion |-> "escaneo", badge |-> <<"+">> \o IntText(h.points), delta |-> h.points,
   fecha |-> Ahora, src |-> "local"]

ServerRow(e) ==
  [accion |-> e.accion, badge |-> e.badge, delta |-> e.delta, fecha |-> e.fecha,
   src |-> "server"]

RenderHistory_Merged(sh, mh) ==
  [i \in 1..Len(sh) |-> ServerRow(sh[i])] \o [i \in 1..Len(mh) |-> LocalRow(mh[i])]

RenderHistory(sh, mh) ==
  IF Len(sh) # 0
    THEN [i \in 1..Len(sh) |-> ServerRow(sh[i])]
    ELSE [i \in 1..Len(mh) |-> LocalRow(mh[i])]

\* The rows the backend writes (its texts as parseDeltaFromDetalle's comment
\* gives them): "+4 puntos por reciclaje", "Gastó 4 pts por: cine".
EscaneoDetalle(n) == <<"+">> \o NatText(n) \o <<" ", "p", "u", "n", "t", "o", "s", " ", "p", "o", "r", " ", "r", "e", "c", "i", "c", "l", "a", "j", "e">>

CanjeDetalle(n) == <<"G", "a", "s", "t", "ó", " ">> \o NatText(n) \o <<" ", "p", "t", "s", " ", "p", "o", "r", ":", " ", "p", "r", "e", "m", "i", "o">>

\* ------------------------------------------------------ backend histories
\* The rows a backend history is drawn from where the dates matter: two dates
\* a month apart, one whose day is no month number, a row without fecha and one
\* whose fecha is no date.
DateRows ==
  { [accion |-> "escaneo", detalle |-> EscaneoDetalle(5), fecha |-> IsoDate(Instant(2, 3, 36000000))],
    [accion |-> "canje", detalle |-> CanjeDetalle(4), fecha |-> IsoDate(Instant(3, 1, 36000500))],
    [accion |-> "escaneo", detalle |-> EscaneoDetalle(2), fecha |-> IsoDate(Instant(2, 20, 36000000))],
    [accion |-> "escaneo", detalle |-> EscaneoDetalle(3), fecha |-> NoDate],
    [accion |-> "canje", detalle |-> CanjeDetalle(8), fecha |-> BadDate] }

RECURSIVE SeqsUpTo(_, _)
SeqsUpTo(S, n) ==
  IF n = 0 THEN {<<>>}
  ELSE SeqsUpTo(S, n - 1) \cup {Append(q, x) : q \in SeqsUpTo(S, n - 1), x \in S}

DatePayloads == SeqsUpTo(DateRows, MaxRows)

\* The detalle texts a row is given where the text matters: the examples of
\* parseDeltaFromDetalle's comment, one for the generic pattern, and every text
\* made of at most MaxFrags of the fragments.
TextEscaneo ==
  <<"+", "5", " ", "p", "u", "n", "t", "o", "s", " ", "p", "o", "r", " ", "r", "e", "c",
    "i", "c", "l", "a", "j", "e">>

TextCanje ==
  <<"G", "a", "s", "t", "ó", " ", "1", "5", "0", " ", "p", "t", "s", " ", "p", "o", "r",
    ":", " ", "E", "n", "t", "r", "a", "d", "a", " ", "c", "i", "n", "e">>

TextOtro ==
  <<"a", "j", "u", "s", "t", "e", " ", "-", "2", "0">>

Fragments ==
  { <<"+", "5">>,
    <<" ", "p", "u", "n", "t", "o", "s">>,
    <<"P", "U", "N", "T", "O">>,
    <<"G", "a", "s", "t", "ó", " ", "1", "5", "0">>,
    <<"g", "a", "s", "t", "o", " ", " ", "7">>,
    <<" ", "p", "t", "s">>,
    <<"-", "2", "0">>,
    <<"x">> }

RECURSIVE Concats(_)
Concats(n) ==
  IF n = 0 THEN {<<>>}
  ELSE Concats(n - 1) \cup {q \o x : q \in Concats(n - 1), x \in Fragments}

TextPool == {TextEscaneo, TextCanje, TextOtro} \cup Concats(MaxFrags)

Acciones == {"escaneo", "canje", "otro"}

\* One-row histories for the texts.
TextPayloads ==
  { <<[accion |-> a, detalle |-> x, fecha |-> IsoDate(Instant(2, 3, 36000000))]>> :
      a \in Acciones, x \in TextPool }


\* ------------------------------------------------------------ fetchPoints
\* now - (this._lastPointsFetch || 0) < 8000
Throttled == now - lastPointsFetch < THROTTLE_WINDOW

\* The three early returns of fetchPoints, in the order of the code.
FetchGate_NoBusyCheck ==
  IF Throttled THEN "throttled"
  ELSE IF userEmail = NoUser THEN "nouser"
  ELSE "dispatched"

FetchGate_NoThrottle ==
  IF fetchingPoints THEN "busy"
  ELSE IF userEmail = NoUser THEN "nouser"
  ELSE "dispatched"

FetchGate_NoUserCheck ==
  IF fetchingPoints THEN "busy"
  ELSE IF Throttled THEN "throttled"
  ELSE "dispatched"

FetchGate ==
  IF fetchingPoints THEN "busy"
  ELSE IF Throttled THEN "throttled"
  ELSE IF userEmail = NoUser THEN "nouser"
  ELSE "dispatched"

\* this._lastPointsFetch after a call of fetchPoints
LastFetchAfterCall_BeforeChecks == now

LastFetchAfterCall == IF FetchGate = "dispatched" THEN now ELSE lastPointsFetch

Pending == [st |-> "pending", kind |-> "none", val |-> Undefined]

Resolved(kind, val) == [st |-> "resolved", kind |-> kind, val |-> val]

NewInvocation ==
  [id |-> nextId, pc |-> "all", saldoRes |-> Pending, totalRes |-> Pending,
   pre |-> <<userPoints, userPointsTotal>>]

\* fetchPoints up to its first await: the gate, the two flags, the two fetches.
FetchPointsCall ==
  /\ callResult' = FetchGate
  /\ lastPointsFetch' = LastFetchAfterCall
  /\ IF FetchGate = "dispatched"
       THEN /\ fetchingPoints' = TRUE
            /\ inflight' = inflight \cup {NewInvocation}
            /\ nextId' = nextId + 1
            /\ dispatchTimes' = Append(dispatchTimes, now)
       ELSE UNCHANGED <<fetchingPoints, inflight, nextId, dispatchTimes>>

\* The invocation a caller that awaits this call is suspended on (0: the call
\* returned at once and the caller goes on in the same run of the event loop).
AwaitedId == IF FetchGate = "dispatched" THEN nextId ELSE 0

InvocationDone(id) == \A f \in inflight : f.id # id

\* The body of a read response: the JSON object's points field.
\*   "ok"          { puntos: <number> }
\*   "error"       { error: "..." }, no points field
\*   "nonnumeric"  { puntos: "abc" }
\*   "unparseable" a body on which response.json() rejects
ReadKinds == {"ok", "error", "nonnumeric", "unparseable"}

ReadBody(kind, value) ==
  CASE kind = "ok" -> Num(value)
    [] kind = "error" -> Undefined
    [] kind = "nonnumeric" -> Str
    [] kind = "unparseable" -> Undefined

\* updatePointsDisplay(): the texts it writes, the invocations they were taken
\* from, and this._fetchingPoints as it stands when it runs
PointsDisplay(bal, tot, balFrom, totFrom, flag, who) ==
  [bal |-> bal, tot |-> tot, balSrc |-> balFrom, totSrc |-> totFrom, fetching |-> flag,
   by |-> who]

\* What is recorded of an invocation when it settles.
Outcome(f, outcome, cause, post) ==
  [id |-> f.id, outcome |-> outcome, cause |-> cause,
   saldoKind |-> f.saldoRes.kind, totalKind |-> f.totalRes.kind,
   saldoVal |-> f.saldoRes.val, totalVal |-> f.totalRes.val,
   pre |-> f.pre, post |-> post]

\* catch (e) { console.error } finally { this._fetchingPoints = false }
CatchFinally_FlagLeftSet(f, cause) ==
  /\ UNCHANGED <<fetchingPoints, pointVars, shown, rewardsShown>>
  /\ inflight' = inflight \ {f}
  /\ settled' = Outcome(f, "caught", cause, <<userPoints, userPointsTotal>>)

CatchFinally_ResetPoints(f, cause) ==
  /\ fetchingPoints' = FALSE
  /\ inflight' = inflight \ {f}
  /\ userPoints' = Num(0)
  /\ userPointsTotal' = Num(0)
  /\ UNCHANGED <<balSrc, totSrc, shown, rewardsShown>>
  /\ settled' = Outcome(f, "caught", cause, <<userPoints', userPointsTotal'>>)

CatchFinally(f, cause) ==
  /\ fetchingPoints' = FALSE
  /\ inflight' = inflight \ {f}
  /\ UNCHANGED <<pointVars, shown, rewardsShown>>
  /\ settled' = Outcome(f, "caught", cause, <<userPoints, userPointsTotal>>)

\* A response that is not the regular answer of the backend uses up one unit of
\* the number of such responses a behaviour may hold.
Fault(irregular) ==
  /\ IF irregular THEN faults < MaxFaults /\ faults' = faults + 1 ELSE UNCHANGED faults
  /\ UNCHANGED <<orphaned, locale, histSettled, scanVars, pageVars>>

\* What every step of an invocation leaves alone.
FetchFrame ==
  /\ callResult' = "none"
  /\ UNCHANGED <<now, userEmail, uiVars, initVars, voiceTimers, nextId, tasks, nextTask,
                 srvVars, sent, dispatchTimes, lastPointsFetch, historyShown, clicks>>

\* One of the two fetches resolves with a response; Promise.all resolves once
\* both have.
AfterResolve(g) ==
  IF g.saldoRes.st = "resolved" /\ g.totalRes.st = "resolved"
    THEN [g EXCEPT !.pc = "jsonSaldo"]
    ELSE g

SaldoResolves(f, kind) ==
  /\ Fault(kind # "ok")
  /\ f \in inflight /\ f.pc = "all" /\ f.saldoRes.st = "pending"
  /\ inflight' = (inflight \ {f}) \cup
        {AfterResolve([f EXCEPT !.saldoRes = Resolved(kind, ReadBody(kind, srvSaldo))])}
  /\ UNCHANGED <<fetchingPoints, pointVars, settled, shown, rewardsShown>>
  /\ FetchFrame

TotalResolves(f, kind) ==
  /\ Fault(kind # "ok")
  /\ f \in inflight /\ f.pc = "all" /\ f.totalRes.st = "pending"
  /\ inflight' = (inflight \ {f}) \cup
        {AfterResolve([f EXCEPT !.totalRes = Resolved(kind, ReadBody(kind, srvTotal))])}
  /\ UNCHANGED <<fetchingPoints, pointVars, settled, shown, rewardsShown>>
  /\ FetchFrame

\* One of the two fetches rejects (transport failure): Promise.all rejects at
\* once, whatever the other fetch does, and the catch and finally blocks run.
\* The other fetch is not cancelled: when it is still pending, its request stays
\* on the wire after the invocation has settled.
ReadRejects(f) ==
  /\ faults < MaxFaults /\ faults' = faults + 1
  /\ f \in inflight /\ f.pc = "all"
  /\ \E r \in {"saldo", "total"} :
       LET this == IF r = "saldo" THEN f.saldoRes ELSE f.totalRes
           other == IF r = "saldo" THEN f.totalRes ELSE f.saldoRes
       IN /\ this.st = "pending"
          /\ orphaned' = IF other.st = "pending" THEN orphaned \cup {f.id} ELSE orphaned
  /\ CatchFinally(f, "rejected")
  /\ FetchFrame
  /\ UNCHANGED <<locale, histSettled, scanVars, pageVars>>

\* The read a rejected Promise.all left pending completes; nothing awaits it.
OrphanSettles(id) ==
  /\ id \in orphaned
  /\ orphaned' = orphaned \ {id}
  /\ callResult' = "none"
  /\ UNCHANGED <<now, userEmail, uiVars, gateVars, pointVars, fetchVars, initVars, srvVars,
                 voiceTimers, tasks, nextTask, sent, settled, faults, shown, rewardsShown,
                 historyShown, clicks, locale, histSettled, scanVars, pageVars>>

\* The invocations with a request on the wire.
PairsOnWire == {f.id : f \in inflight} \cup orphaned

\* const saldo = await saldoRes.json()
JsonSaldo_AssignEarly(f) ==
  /\ UNCHANGED <<faults, orphaned, locale, histSettled, scanVars, pageVars>>
  /\ f \in inflight /\ f.pc = "jsonSaldo"
  /\ IF f.saldoRes.kind = "unparseable"
       THEN CatchFinally(f, "unparseable")
       ELSE /\ inflight' = (inflight \ {f}) \cup {[f EXCEPT !.pc = "jsonTotal"]}
            /\ userPoints' = ToNumber(Coalesce(f.saldoRes.val, Num(0)))
            /\ balSrc' = f.id
            /\ UNCHANGED <<fetchingPoints, userPointsTotal, totSrc, settled, shown, rewardsShown>>
  /\ FetchFrame

JsonSaldo(f) ==
  /\ UNCHANGED <<faults, orphaned, locale, histSettled, scanVars, pageVars>>
  /\ f \in inflight /\ f.pc = "jsonSaldo"
  /\ IF f.saldoRes.kind = "unparseable"
       THEN CatchFinally(f, "unparseable")
       ELSE /\ inflight' = (inflight \ {f}) \cup {[f EXCEPT !.pc = "jsonTotal"]}
            /\ UNCHANGED <<fetchingPoints, pointVars, settled, shown, rewardsShown>>
  /\ FetchFrame

\* Number(saldo?.puntos ?? 0), Number(total?.puntos_acumulados ?? 0)
PointsOf_ZeroFallback(field) ==
  IF ToNumber(Coalesce(field, Num(0))).tag = "num"
    THEN ToNumber(Coalesce(field, Num(0)))
    ELSE Num(0)

PointsOf(field) == ToNumber(Coalesce(field, Num(0)))

\* const total = await totalRes.json(); the two assignments; updatePointsDisplay();
\* renderRewards() on the rewards tab; finally.
JsonTotal(f) ==
  /\ UNCHANGED <<faults, orphaned, locale, histSettled, scanVars, pageVars>>
  /\ f \in inflight /\ f.pc = "jsonTotal"
  /\ IF f.totalRes.kind = "unparseable"
       THEN CatchFinally(f, "unparseable")
       ELSE /\ userPoints' = PointsOf(f.saldoRes.val)
            /\ userPointsTotal' = PointsOf(f.totalRes.val)
            /\ balSrc' = f.id
            /\ totSrc' = f.id
            /\ shown' = PointsDisplay(userPoints', userPointsTotal', balSrc', totSrc',
                                      fetchingPoints, "fetchPoints")
            /\ rewardsShown' = IF activeTab = "rewards"
                                 THEN RenderRewards(userPoints', rewards)
                                 ELSE rewardsShown
            /\ fetchingPoints' = FALSE
            /\ inflight' = inflight \ {f}
            /\ settled' = Outcome(f, "ok", "none", <<userPoints', userPointsTotal'>>)
  /\ FetchFrame

\* --------------------------------------------------- loadHistoryFromBackend
\* const correo = localStorage.getItem('userEmail'); if (!correo) return;
HistoryGate_NoUserCheck == "dispatched"

\* a gate like that of fetchPoints: no second request while one is out
HistoryGate_OneInFlight ==
  IF userEmail = NoUser \/ \E t \in tasks : t.pc \in {"history", "historyResp"}
    THEN "nouser" ELSE "dispatched"

HistoryGate == IF userEmail = NoUser THEN "nouser" ELSE "dispatched"

\* The code that follows the handler's await of loadHistoryFromBackend():
\* renderHistory() (voice award, switchTab), renderRewards() (claimReward), and
\* for the voice award the reset of isListening.  sh and mh are serverHistory
\* and myRecyclingHistory as they stand when it runs.
FinishTask(t, sh, mh) ==
  /\ historyShown' = IF t.kind \in {"voice", "tab"} THEN RenderHistory(sh, mh) ELSE historyShown
  /\ rewardsShown' = IF t.kind = "claim" THEN RenderRewards(userPoints, rewards) ELSE rewardsShown
  /\ isListening' = IF t.kind = "voice" THEN FALSE ELSE isListening

\* Handler t calls loadHistoryFromBackend(): without a user it returns at once
\* and the handler runs to its end; with one the request leaves and the handler
\* is suspended on it.
LoadHistoryCall(t, mh) ==
  /\ IF HistoryGate = "nouser"
       THEN /\ tasks' = tasks \ {t}
            /\ FinishTask(t, serverHistory, mh)
            /\ UNCHANGED <<serverHistory, sent>>
       ELSE /\ tasks' = (tasks \ {t}) \cup {[t EXCEPT !.pc = "history"]}
            /\ sent' = [sent EXCEPT !.historial = @ + 1]
            /\ UNCHANGED <<serverHistory, historyShown, rewardsShown, isListening>>

\* The response of GET /historial/{correo}:
\*   "ok"          the rows of the user, an array
\*   "null"        the JSON value null
\*   "error"       an object { error: "..." }: raw.map is not a function
\*   "badrow"      an array with an element that is null: h.accion throws
\*   "unparseable" a body on which res.json() rejects
\*   "rejected"    the fetch rejects
HistoryKinds == {"ok", "null", "error", "badrow", "unparseable", "rejected"}

\* The backend answers the request of handler t with the rows it holds then.
HistoryServed(t, kind) ==
  /\ Fault(kind # "ok")
  /\ t \in tasks /\ t.pc = "history"
  /\ tasks' = (tasks \ {t}) \cup
        {[t EXCEPT !.pc = "historyResp", !.resp = [kind |-> kind, raw |-> srvHistory]]}
  /\ callResult' = "none"
  /\ UNCHANGED <<now, userEmail, uiVars, gateVars, pointVars, fetchVars, initVars, voiceTimers,
                 nextTask, srvVars, sent, settled, shown, rewardsShown, historyShown, clicks>>

\* this.serverHistory once the response is handled: replaced by the derived
\* and sorted rows of an array, emptied by null ((raw || [])), and left alone
\* when fetch, json() or map threw.
HistoryAfter_Merge(resp) ==
  CASE resp.kind = "ok" -> DeriveHistory(resp.raw, locale) \o serverHistory
    [] resp.kind = "null" -> <<>>
    [] OTHER -> serverHistory

HistoryAfter(resp) ==
  CASE resp.kind = "ok" -> DeriveHistory(resp.raw, locale)
    [] resp.kind = "null" -> <<>>
    [] OTHER -> serverHistory

\* The response reaches the app: the rest of loadHistoryFromBackend runs, then
\* the code of the handler that awaited it.
HistorySettles(t) ==
  /\ t \in tasks /\ t.pc = "historyResp"
  /\ serverHistory' = HistoryAfter(t.resp)
  /\ histSettled' = [id |-> t.id, nth |-> histSettled.nth + 1, kind |-> t.resp.kind,
                     raw |-> t.resp.raw, pre |-> serverHistory, post |-> serverHistory']
  /\ tasks' = tasks \ {t}
  /\ FinishTask(t, serverHistory', myRecyclingHistory)
  /\ callResult' = "none"
  /\ UNCHANGED <<now, userEmail, activeTab, myRecyclingHistory, rewards, gateVars, pointVars,
                 fetchVars, initVars, voiceTimers, nextTask, srvVars, sent, settled, shown,
                 clicks, faults, orphaned, locale, scanVars, pageVars>>

\* A handler suspended on `await this.fetchPoints()` goes on once that
\* invocation has run its finally block.
TaskAfterPoints(t) ==
  /\ UNCHANGED <<faults, orphaned, locale, histSettled, scanVars, pageVars>>
  /\ t \in tasks /\ t.pc = "points" /\ InvocationDone(t.wait)
  /\ LoadHistoryCall(t, myRecyclingHistory)
  /\ callResult' = "none"
  /\ UNCHANGED <<now, userEmail, activeTab, myRecyclingHistory, rewards, gateVars, pointVars,
                 fetchVars, initVars, voiceTimers, nextTask, srvVars, settled, shown, clicks>>

\* ------------------------------------------------------ toggleVoiceRecognition
\* The click handler; within(budget) tells whether the activations so far
\* leave room for one more.
\* The pending setTimeout callbacks after listening is switched off: the
\* branch holds no clearTimeout.
VoiceTimersAfterOff_Cleared == <<>>

VoiceTimersAfterOff == voiceTimers

ToggleVoiceHandler(within) ==
  /\ UNCHANGED <<faults, orphaned, locale, histSettled, scanVars, pageVars>>
  /\ initPc # "start"
  /\ IF isListening
       THEN /\ isListening' = FALSE
            /\ voiceTimers' = VoiceTimersAfterOff
            /\ UNCHANGED clicks
       ELSE /\ within
            /\ isListening' = TRUE
            /\ voiceTimers' = Append(voiceTimers, now + VOICE_DELAY_MS)
            /\ clicks' = [clicks EXCEPT !.voice = @ + 1]
  /\ callResult' = "none"
  /\ UNCHANGED <<now, userEmail, activeTab, myRecyclingHistory, serverHistory, rewards,
                 gateVars, pointVars, fetchVars, initVars, tasks, nextTask, srvVars, sent,
                 settled, shown, rewardsShown, historyShown>>

ToggleVoice == ToggleVoiceHandler(Inputs < MaxInputs)

\* The same click where the property is about repeated voice scans.
VoiceClick == ToggleVoiceHandler(clicks.voice < MaxRepeats)

RemoveAt(s, i) == SubSeq(s, 1, i - 1) \o SubSeq(s, i + 1, Len(s))

\* The setTimeout callback starts: displayScanResult(), then the POST of
\* /puntos/agregar leaves.
VoiceTimerFires(i) ==
  /\ UNCHANGED <<faults, orphaned, locale, histSettled, scanAlerts, pageVars>>
  /\ scanResult' = LataScan
  /\ scanShown' = DisplayScanResult(LataScan)
  /\ i \in 1..Len(voiceTimers) /\ voiceTimers[i] <= now
  /\ voiceTimers' = RemoveAt(voiceTimers, i)
  /\ tasks' = tasks \cup {[id |-> nextTask, kind |-> "voice", pc |-> "agregar", rid |-> 0, wait |-> 0,
                          resp |-> NoResponse]}
  /\ nextTask' = nextTask + 1
  /\ sent' = [sent EXCEPT !.agregar = @ + 1]
  /\ callResult' = "none"
  /\ UNCHANGED <<now, userEmail, uiVars, gateVars, pointVars, fetchVars, initVars, srvVars,
                 settled, shown, rewardsShown, historyShown, clicks>>

\* POST /puntos/agregar on the backend: the points are added to the balance and
\* to the cumulative total of a known user, and a history row is written.
ServeAgregar(delivered) ==
  IF delivered /\ userEmail # NoUser
    THEN /\ srvSaldo' = srvSaldo + VOICE_POINTS
         /\ srvTotal' = srvTotal + VOICE_POINTS
         /\ srvHistory' = <<[accion |-> "escaneo", detalle |-> EscaneoDetalle(VOICE_POINTS),
                             fecha |-> IsoDate(InstantOf(now))]>> \o srvHistory
         /\ UNCHANGED srvStock
    ELSE UNCHANGED srvVars

\* addToHistory(item, points): unshift on myRecyclingHistory of an entry with
\* id Date.now(); updateStatistics() after it only reads.
AddToHistory_Append(mh, item, points) ==
  mh \o <<[id |-> now, item |-> item, points |-> points, time |-> "Ahora"]>>

AddToHistory(mh, item, points) ==
  <<[id |-> now, item |-> item, points |-> points, time |-> "Ahora"]>> \o mh

\* The POST settles (a rejection is swallowed by catch (_) {}); then
\* addNotification, addToHistory, fetchPoints() and, when that call returned at
\* once, loadHistoryFromBackend().
VoiceAgregarSettles(t, delivered) ==
  /\ Fault(~delivered)
  /\ t \in tasks /\ t.kind = "voice" /\ t.pc = "agregar"
  /\ ServeAgregar(delivered)
  /\ myRecyclingHistory' = AddToHistory(myRecyclingHistory, "lata de aluminio", VOICE_POINTS)
  /\ FetchPointsCall
  /\ IF FetchGate = "dispatched"
       THEN /\ tasks' = (tasks \ {t}) \cup {[t EXCEPT !.pc = "points", !.wait = AwaitedId]}
            /\ UNCHANGED <<serverHistory, sent, historyShown, rewardsShown, isListening>>
       ELSE LoadHistoryCall(t, myRecyclingHistory')
  /\ UNCHANGED <<now, userEmail, activeTab, rewards, pointVars, initVars, voiceTimers, nextTask,
                 settled, shown, clicks>>

\* ------------------------------------------------------------- classification
\* The answers of POST /classify: a body with points, one without, one with an
\* error field, a status that is not ok, and no answer at all.
ClassifyAnswers == {"points", "nopoints", "error", "notOk", "down"}

ClassifyBody(kind) ==
  CASE kind = "points" -> [item |-> "botella de plastico", points |-> 5, error |-> FALSE]
    [] kind = "nopoints" -> [item |-> "residuo no reciclable", points |-> 0, error |-> FALSE]
    [] OTHER -> [item |-> "", points |-> 0, error |-> TRUE]

\* handleFileUpload, or the toBlob callback of captureAndClassify: the panel is
\* hidden and sendImageForClassification posts the image.
UploadImage ==
  /\ UNCHANGED <<faults, orphaned, locale, histSettled, scanResult, scanAlerts, pageVars>>
  /\ initPc # "start"
  /\ sent.classify < MaxRepeats
  /\ scanShown' = [scanShown EXCEPT !.visible = FALSE]
  /\ tasks' = tasks \cup {[id |-> nextTask, kind |-> "classify", pc |-> "classify", rid |-> 0,
                          wait |-> 0, resp |-> NoResponse]}
  /\ nextTask' = nextTask + 1
  /\ sent' = [sent EXCEPT !.classify = @ + 1]
  /\ callResult' = "none"
  /\ UNCHANGED <<now, userEmail, uiVars, gateVars, pointVars, fetchVars, initVars, voiceTimers,
                 srvVars, settled, shown, rewardsShown, historyShown, clicks>>

\* The fetch of sendImageForClassification settles: a rejection and a status
\* that is not ok end in the catch block and its alert, any other response is
\* read with response.json().
ClassifyResponds(t, kind) ==
  /\ UNCHANGED <<faults, orphaned, locale, histSettled, scanResult, scanShown, pageVars>>
  /\ t \in tasks /\ t.kind = "classify" /\ t.pc = "classify"
  /\ kind \in ClassifyAnswers
  /\ IF kind \in {"notOk", "down"}
       THEN /\ tasks' = tasks \ {t}
            /\ scanAlerts' = Append(scanAlerts, "noServer")
       ELSE /\ tasks' = (tasks \ {t}) \cup {[t EXCEPT !.pc = "json", !.resp = [kind |-> kind, raw |-> <<>>]]}
            /\ UNCHANGED scanAlerts
  /\ callResult' = "none"
  /\ UNCHANGED <<now, userEmail, uiVars, gateVars, pointVars, fetchVars, initVars, voiceTimers,
                 nextTask, srvVars, sent, settled, shown, rewardsShown, historyShown, clicks>>

\* The body is there: this.displayScanResult(result), which is the method
\* without parameter; what it throws is caught by sendImageForClassification.
\* Neither path calls fetchPoints().
ClassifyJson(t) ==
  /\ UNCHANGED <<faults, orphaned, locale, histSettled, scanResult, pageVars>>
  /\ t \in tasks /\ t.kind = "classify" /\ t.pc = "json"
  /\ tasks' = tasks \ {t}
  /\ IF DisplayThrows(scanResult)
       THEN /\ scanAlerts' = Append(scanAlerts, "noServer")
            /\ UNCHANGED scanShown
       ELSE /\ scanShown' = DisplayScanResult(scanResult)
            /\ UNCHANGED scanAlerts
  /\ callResult' = "none"
  /\ UNCHANGED <<now, userEmail, uiVars, gateVars, pointVars, fetchVars, initVars, voiceTimers,
                 nextTask, srvVars, sent, settled, shown, rewardsShown, historyShown, clicks>>

\* ------------------------------------------------------------------ login page
\* What the submit handlers of the login page leave alone: the app of the
\* main page is not loaded.
appVars ==
  <<uiVars, gateVars, pointVars, fetchVars, initVars, srvVars, voiceTimers, tasks, nextTask,
    settled, callResult, faults, shown, rewardsShown, historyShown, clicks, orphaned, locale,
    histSettled, scanVars>>

\* The answers to POST /register and POST /login: a 200 with mensaje, a 200
\* with an error field, a 200 whose body is null, a status that is not ok, a
\* body that is not JSON, and no answer at all.
AuthAnswers == {"ok", "okError", "okNull", "notOk", "unparsable", "down"}

\* Api.request once the body is read: it throws for a status that is not ok
\* and returns the body otherwise.
RequestThrows(answer) == answer = "notOk"

\* res?.error of the submit handlers
HasError_Never(answer) == FALSE

HasError(answer) == answer = "okError"

\* The checks of the register handler before the request:
\* !nombre || !correo || !password, then password !== confirm.
RegisterRefusal(f) ==
  IF Trim(f.nombre) = <<>> \/ Trim(f.correo) = <<>> \/ f.password = <<>> THEN "warning"
  ELSE IF f.password # f.confirm THEN "mismatch"
  ELSE "none"

\* The check of the login handler: !correo || !password.
LoginRefusal(f) ==
  IF Trim(f.correo) = <<>> \/ f.password = <<>> THEN "warning" ELSE "none"

\* A submit handler up to its await of Api.register or Api.login.
SubmitHandler(f, refusal) ==
  /\ location = "login"
  /\ submitted' = f
  /\ IF refusal # "none"
       THEN UNCHANGED <<authReqs, sent>>
       ELSE /\ sent.auth < MaxRepeats
            /\ authReqs' = authReqs \cup {[id |-> sent.auth + 1, form |-> f.form,
                                            correo |-> TextValue(Trim(f.correo)),
                                            pc |-> "fetch", resp |-> "none"]}
            /\ sent' = [sent EXCEPT !.auth = @ + 1]
  /\ UNCHANGED <<now, userEmail, redirects, location, viewVars, appVars>>

RegisterSubmit(f) == SubmitHandler(f, RegisterRefusal(f))

LoginSubmit(f) == SubmitHandler(f, LoginRefusal(f))

\* The fetch of Api.request settles: a rejection is rethrown and ends in the
\* catch of the submit handler; a response is read with response.json().
AuthResponds(r, answer) ==
  /\ location = "login"
  /\ r \in authReqs /\ r.pc = "fetch"
  /\ answer \in AuthAnswers
  /\ authReqs' = IF answer = "down"
                   THEN authReqs \ {r}
                   ELSE (authReqs \ {r}) \cup {[r EXCEPT !.pc = "json", !.resp = answer]}
  /\ UNCHANGED <<now, userEmail, redirects, location, submitted, sent, viewVars, appVars>>

\* The body is read and the submit handler runs to its end: the catch block
\* when json() or Api.request threw, the error notice for a body with an
\* error, else localStorage.setItem("userEmail", correo), the success notice
\* (res.mensaje throws on a null body) and setTimeout(() => goToApp(), 800).
AuthJson(r) ==
  /\ location = "login"
  /\ r \in authReqs /\ r.pc = "json"
  /\ authReqs' = authReqs \ {r}
  /\ IF r.resp = "unparsable" \/ RequestThrows(r.resp) \/ HasError(r.resp)
       THEN UNCHANGED <<userEmail, redirects>>
       ELSE /\ userEmail' = r.correo
            /\ redirects' = IF r.resp = "okNull"
                              THEN redirects
                              ELSE Append(redirects, now + REDIRECT_DELAY_MS)
  /\ UNCHANGED <<now, location, submitted, sent, viewVars, appVars>>

\* goToApp(): window.location.href = "../../index.html"; the page is left and
\* what it had pending is gone with it.
RedirectFires(i) ==
  /\ location = "login"
  /\ i \in 1..Len(redirects) /\ redirects[i] <= now
  /\ location' = "app"
  /\ authReqs' = {}
  /\ redirects' = <<>>
  /\ UNCHANGED <<now, userEmail, submitted, sent, viewVars, appVars>>

\* ----------------------------------------------------------------- ViewManager
\* hideView(viewId): nothing for a view that is not active; else isActive is
\* cleared at once and display is set to 'none' 300 ms later.
HideView(vs, viewId) ==
  IF viewId \notin DOMAIN vs \/ ~vs[viewId].isActive
    THEN [views |-> vs, timers |-> <<>>]
    ELSE [views |-> [vs EXCEPT ![viewId].isActive = FALSE],
          timers |-> <<[due |-> now + VIEW_TRANSITION_MS, kind |-> "hide", view |-> viewId]>>]

\* The delay of the callback that shows the target:
\* this.currentView && this.currentView !== viewId ? 300 : 0
ShowDelay_Always(viewId) == VIEW_TRANSITION_MS

ShowDelay(viewId) ==
  IF currentView # NoView /\ currentView # viewId THEN VIEW_TRANSITION_MS ELSE 0

\* showView(viewId, {addToHistory}) with hist the history it finds: the view
\* that is current is pushed and hidden when it is another one, and the
\* callback that shows the target is set.  (The callback it nests, 500 ms
\* later, only removes an animation class.)
ShowView(viewId, addToHistory, hist) ==
  IF viewId \notin DOMAIN views
    THEN /\ viewHistory' = hist
         /\ UNCHANGED <<views, currentView, viewTimers>>
    ELSE LET leaving == currentView # NoView /\ currentView # viewId
             hidden == IF leaving THEN HideView(views, currentView)
                                  ELSE [views |-> views, timers |-> <<>>]
         IN /\ viewHistory' = IF addToHistory /\ leaving THEN Append(hist, currentView) ELSE hist
            /\ views' = hidden.views
            /\ viewTimers' = viewTimers \o hidden.timers \o
                               <<[due |-> now + ShowDelay(viewId), kind |-> "show", view |-> viewId]>>
            /\ UNCHANGED currentView

\* A call of showView from the page: switchToView, resetApp.
ShowViewCall(viewId, addToHistory) ==
  /\ location = "login"
  /\ clicks.view < MaxViewCalls
  /\ clicks' = [clicks EXCEPT !.view = @ + 1]
  /\ ShowView(viewId, addToHistory, viewHistory)
  /\ UNCHANGED <<now, userEmail, sent, loginVars>>
  /\ UNCHANGED <<uiVars, gateVars, pointVars, fetchVars, initVars, srvVars, voiceTimers, tasks,
                 nextTask, settled, callResult, faults, shown, rewardsShown, historyShown,
                 orphaned, locale, histSettled, scanVars>>

\* goBack(): nothing on an empty history; else the last entry is popped and
\* shown without being pushed again.
GoBack ==
  /\ location = "login"
  /\ clicks.view < MaxViewCalls
  /\ clicks' = [clicks EXCEPT !.view = @ + 1]
  /\ IF viewHistory = <<>>
       THEN UNCHANGED viewVars
       ELSE ShowView(viewHistory[Len(viewHistory)], FALSE,
                     SubSeq(viewHistory, 1, Len(viewHistory) - 1))
  /\ UNCHANGED <<now, userEmail, sent, loginVars>>
  /\ UNCHANGED <<uiVars, gateVars, pointVars, fetchVars, initVars, srvVars, voiceTimers, tasks,
                 nextTask, settled, callResult, faults, shown, rewardsShown, historyShown,
                 orphaned, locale, histSettled, scanVars>>

\* A setTimeout callback of the ViewManager runs: the one that is due first,
\* the one set first among those due at the same time.
ViewTimerFires(i) ==
  /\ location = "login"
  /\ i \in 1..Len(viewTimers) /\ viewTimers[i].due <= now
  /\ \A j \in 1..Len(viewTimers) :
       j # i => \/ viewTimers[j].due > viewTimers[i].due
                \/ viewTimers[j].due = viewTimers[i].due /\ j > i
  /\ LET t == viewTimers[i]
     IN IF t.kind = "show"
          THEN /\ views' = [views EXCEPT ![t.view] = [display |-> "block", isActive |-> TRUE]]
               /\ currentView' = t.view
          ELSE /\ views' = [views EXCEPT ![t.view].display = "none"]
               /\ UNCHANGED currentView
  /\ viewTimers' = RemoveAt(viewTimers, i)
  /\ UNCHANGED <<now, userEmail, sent, viewHistory, loginVars, appVars>>

\* The clock of the page advances while no callback is due.
PageTick ==
  /\ now < StartNow + MaxPageTicks * PageTickMs
  /\ \A i \in 1..Len(redirects) : redirects[i] > now
  /\ \A i \in 1..Len(viewTimers) : viewTimers[i].due > now
  /\ now' = now + PageTickMs
  /\ UNCHANGED <<userEmail, sent, pageVars, appVars>>

\* ---------------------------------------------------------------- claimReward
\* The reward ids a click can carry: those of the list and one that is not in it.
RewardIds == 1..(Len(Premios) + 1)

\* The checks before the request: the reward exists, (reward.stock ?? 0) > 0,
\* !(this.userPoints < reward.points), a user is stored.
ClaimPasses(rid) ==
  /\ rid \in 1..Len(rewards)
  /\ ~JsLeq(Coalesce(rewards[rid].stock, Num(0)), Num(0))
  /\ ~JsLess(userPoints, rewards[rid].points)
  /\ userEmail # NoUser

\* claimReward(rewardId) up to its first await; within tells whether the
\* calls so far leave room for one more.
ClaimRewardHandler(rid, within) ==
  /\ UNCHANGED <<faults, orphaned, locale, histSettled, scanVars, pageVars>>
  /\ initPc # "start"
  /\ within
  /\ clicks' = [clicks EXCEPT !.claim = @ + 1]
  /\ IF ClaimPasses(rid)
       THEN /\ tasks' = tasks \cup {[id |-> nextTask, kind |-> "claim", pc |-> "canjear",
                                     rid |-> rid, wait |-> 0, resp |-> NoResponse]}
            /\ nextTask' = nextTask + 1
            /\ sent' = [sent EXCEPT !.canjear = @ + 1]
       ELSE UNCHANGED <<tasks, nextTask, sent>>
  /\ callResult' = "none"
  /\ UNCHANGED <<now, userEmail, uiVars, gateVars, pointVars, fetchVars, initVars, voiceTimers,
                 srvVars, settled, shown, rewardsShown, historyShown>>

ClaimReward(rid) == ClaimRewardHandler(rid, Inputs < MaxInputs)

\* claimReward called again and again.
ClaimClick(rid) == ClaimRewardHandler(rid, clicks.claim < MaxRepeats)

\* The partner restocks a reward that ran out, up to the amount it lists.
BackendRestocks(rid) ==
  /\ rid \in 1..Len(Premios) /\ srvStock[rid] = 0 /\ Premios[rid].stock.tag = "num"
  /\ srvStock' = [srvStock EXCEPT ![rid] = Premios[rid].stock.n]
  /\ callResult' = "none"
  /\ UNCHANGED <<now, userEmail, uiVars, gateVars, pointVars, fetchVars, initVars, voiceTimers,
                 tasks, nextTask, srvSaldo, srvTotal, srvHistory, sent, settled, shown,
                 rewardsShown, historyShown, clicks, faults, orphaned, locale, histSettled, scanVars, pageVars>>

\* POST /puntos/canjear on the backend: it redeems when the balance covers the
\* cost and the reward is in stock, and answers { error } otherwise.
CanjeAccepted(rid) ==
  /\ Premios[rid].puntos_necesarios.n <= srvSaldo
  /\ srvStock[rid] > 0

\* Math.max(0, (reward.stock ?? 0) - 1)
StockAfterClaim_NoFloor(stock) == Num(Coalesce(stock, Num(0)).n - 1)

StockAfterClaim(stock) ==
  IF Coalesce(stock, Num(0)).n - 1 > 0 THEN Num(Coalesce(stock, Num(0)).n - 1) ELSE Num(0)

\* claimReward after the response: it goes on to the stock, the notification
\* and the refreshes unless the fetch or resp.json() rejected (catch) or the
\* body carries an error field (alert, return).
ClaimProceeds_IgnoreError(kind, redeemed) == kind = "served"

ClaimProceeds(kind, redeemed) == kind = "served" /\ redeemed

\* The request settles.  "served": the backend answered, with { mensaje } when
\* it redeemed and { error } when it did not; "rejected": the fetch or
\* resp.json() rejected, the catch block alerts.
ClaimSettles(t, kind) ==
  /\ Fault(kind = "rejected")
  /\ t \in tasks /\ t.kind = "claim" /\ t.pc = "canjear"
  /\ IF kind = "served" /\ CanjeAccepted(t.rid)
       THEN /\ srvSaldo' = srvSaldo - Premios[t.rid].puntos_necesarios.n
            /\ srvStock' = [srvStock EXCEPT ![t.rid] = @ - 1]
            /\ srvHistory' = <<[accion |-> "canje",
                                detalle |-> CanjeDetalle(Premios[t.rid].puntos_necesarios.n),
                                fecha |-> IsoDate(InstantOf(now))]>> \o srvHistory
            /\ UNCHANGED srvTotal
       ELSE UNCHANGED srvVars
  /\ IF ClaimProceeds(kind, kind = "served" /\ CanjeAccepted(t.rid))
       THEN /\ rewards' = [rewards EXCEPT ![t.rid].stock = StockAfterClaim(@)]
            /\ FetchPointsCall
            /\ IF FetchGate = "dispatched"
                 THEN /\ tasks' = (tasks \ {t}) \cup
                                    {[t EXCEPT !.pc = "points", !.wait = AwaitedId]}
                                /\ UNCHANGED <<serverHistory, sent, historyShown, rewardsShown, isListening>>
                 ELSE LoadHistoryCall(t, myRecyclingHistory)
       ELSE /\ tasks' = tasks \ {t}
            /\ callResult' = "none"
            /\ UNCHANGED <<rewards, gateVars, fetchVars, serverHistory, sent,
                           historyShown, rewardsShown, isListening>>
  /\ UNCHANGED <<now, userEmail, activeTab, myRecyclingHistory, pointVars, initVars, voiceTimers,
                 nextTask, settled, shown, clicks>>

\* ------------------------------------------------------------------ switchTab
SwitchTabHandler(tab) ==
  /\ UNCHANGED <<faults, orphaned, locale, histSettled, scanVars, pageVars>>
  /\ initPc # "start"
  /\ clicks' = [clicks EXCEPT !.tab = @ + 1]
  /\ activeTab' = tab
  /\ IF tab = "history"
       THEN /\ LoadHistoryCall([id |-> nextTask, kind |-> "tab", pc |-> "history",
                                rid |-> 0, wait |-> 0, resp |-> NoResponse], myRecyclingHistory)
            /\ nextTask' = nextTask + 1
       ELSE /\ rewardsShown' = IF tab = "rewards"
                                 THEN RenderRewards(userPoints, rewards)
                                 ELSE rewardsShown
            /\ UNCHANGED <<tasks, nextTask, sent, serverHistory, historyShown, isListening>>
  /\ callResult' = "none"
  /\ UNCHANGED <<now, userEmail, myRecyclingHistory, rewards, gateVars, pointVars, fetchVars,
                 initVars, voiceTimers, srvVars, settled, shown>>

SwitchTab(tab) == Inputs < MaxInputs /\ SwitchTabHandler(tab)

\* The history tab opened again and again.
OpenHistoryTab == clicks.tab < MaxRepeats /\ SwitchTabHandler("history")

\* The backend loses the most recent row it holds for the user.
BackendDropsRow ==
  /\ Len(srvHistory) > 0
  /\ srvHistory' = Tail(srvHistory)
  /\ callResult' = "none"
  /\ UNCHANGED <<now, userEmail, uiVars, gateVars, pointVars, fetchVars, initVars, voiceTimers,
                 tasks, nextTask, srvSaldo, srvTotal, srvStock, sent, settled, shown,
                 rewardsShown, historyShown, clicks, faults, orphaned, locale, histSettled, scanVars, pageVars>>

\* ----------------------------------------------------------------------- init
\* After `await this.fetchPoints()`: updatePointsDisplay(), then loadRewards()
\* sends GET /premios.
InitLoadRewards ==
  /\ shown' = PointsDisplay(userPoints, userPointsTotal, balSrc, totSrc, fetchingPoints, "init")
  /\ sent' = [sent EXCEPT !.premios = @ + 1]
  /\ initPc' = "awaitRewards"
  /\ initWait' = 0

\* init(): bindEvents(), then fetchPoints().
InitStart ==
  /\ UNCHANGED <<faults, orphaned, locale, histSettled, scanVars, pageVars>>
  /\ initPc = "start"
  /\ FetchPointsCall
  /\ IF FetchGate = "dispatched"
       THEN /\ initPc' = "awaitPoints"
            /\ initWait' = AwaitedId
            /\ UNCHANGED <<shown, sent>>
       ELSE InitLoadRewards
  /\ UNCHANGED <<now, userEmail, uiVars, pointVars, timerDue, voiceTimers, tasks, nextTask,
                 srvVars, settled, rewardsShown, historyShown, clicks>>

InitAfterPoints ==
  /\ UNCHANGED <<faults, orphaned, locale, histSettled, scanVars, pageVars>>
  /\ initPc = "awaitPoints" /\ InvocationDone(initWait)
  /\ InitLoadRewards
  /\ callResult' = "none"
  /\ UNCHANGED <<now, userEmail, uiVars, gateVars, pointVars, fetchVars, timerDue, voiceTimers,
                 tasks, nextTask, srvVars, settled, rewardsShown, historyShown, clicks>>

\* loadRewards(): the mapped list, typeof p.stock === 'number' ? p.stock : 0
LoadedRewards ==
  [i \in 1..Len(Premios) |->
     [id |-> i, name |-> Premios[i].nombre, points |-> Premios[i].puntos_necesarios,
      stock |-> IF Premios[i].stock.tag = "num" THEN Premios[i].stock ELSE Num(0)]]

\* GET /premios settles ("ok": the list; "failed": the catch block logs); then
\* init() goes on: updateStatistics(), setInterval, the focus listener.
RewardsSettle(kind) ==
  /\ Fault(kind = "failed")
  /\ initPc = "awaitRewards"
  /\ IF kind = "ok"
       THEN /\ rewards' = LoadedRewards
            /\ rewardsShown' = RenderRewards(userPoints, LoadedRewards)
       ELSE UNCHANGED <<rewards, rewardsShown>>
  /\ initPc' = "done"
  /\ timerDue' = now + POINTS_TIMER_MS
  /\ callResult' = "none"
  /\ UNCHANGED <<now, userEmail, activeTab, myRecyclingHistory, serverHistory, isListening,
                 gateVars, pointVars, fetchVars, initWait, voiceTimers, tasks, nextTask,
                 srvVars, sent, settled, shown, historyShown, clicks>>

\* ------------------------------------------------------------------- triggers
TriggerFrame ==
  /\ UNCHANGED <<faults, orphaned, locale, histSettled, scanVars, pageVars>>
  /\ UNCHANGED <<now, userEmail, uiVars, pointVars, initPc, initWait, voiceTimers, tasks,
                 nextTask, srvVars, sent, settled, shown, rewardsShown, historyShown, clicks>>

\* setInterval(() => this.fetchPoints(), 10000)
TimerFires_NoCall ==
  /\ initPc = "done" /\ timerDue <= now
  /\ timerDue' = now + POINTS_TIMER_MS
  /\ callResult' = "none"
  /\ UNCHANGED <<gateVars, fetchVars>>
  /\ TriggerFrame

TimerFires ==
  /\ initPc = "done" /\ timerDue <= now
  /\ timerDue' = now + POINTS_TIMER_MS
  /\ FetchPointsCall
  /\ TriggerFrame

\* window.addEventListener('focus', () => this.fetchPoints())
Focus ==
  /\ initPc = "done"
  /\ FetchPointsCall
  /\ UNCHANGED timerDue
  /\ TriggerFrame

\* Time passes, up to the given number of advances.
TickWithin(ticks) ==
  /\ UNCHANGED <<faults, orphaned, locale, histSettled, scanVars, pageVars>>
  /\ now + TickMs <= StartNow + ticks * TickMs
  /\ now' = now + TickMs
  /\ callResult' = "none"
  /\ UNCHANGED <<userEmail, uiVars, gateVars, pointVars, fetchVars, initVars, voiceTimers,
                 tasks, nextTask, srvVars, sent, settled, shown, rewardsShown, historyShown,
                 clicks>>

Tick == TickWithin(MaxTicks)

\* Time passes once the interval callback that is due has run.
TickLive == (initPc = "done" => timerDue > now) /\ TickWithin(LiveTicks)

\* The user earns points on another device: the backend adds them to the
\* balance and to the cumulative total.
BackendCredits ==
  /\ srvSaldo = SrvSaldo0
  /\ srvSaldo' = srvSaldo + VOICE_POINTS
  /\ srvTotal' = srvTotal + VOICE_POINTS
  /\ callResult' = "none"
  /\ UNCHANGED <<now, userEmail, uiVars, gateVars, pointVars, fetchVars, initVars, voiceTimers,
                 tasks, nextTask, srvStock, srvHistory, sent, settled, shown, rewardsShown,
                 historyShown, clicks, faults, orphaned, locale, histSettled, scanVars, pageVars>>

Next ==
  \/ InitStart
  \/ InitAfterPoints
  \/ \E kind \in {"ok", "failed"} : RewardsSettle(kind)
  \/ TimerFires
  \/ Focus
  \/ Tick
  \/ \E f \in inflight, kind \in ReadKinds : SaldoResolves(f, kind)
  \/ \E f \in inflight, kind \in ReadKinds : TotalResolves(f, kind)
  \/ \E f \in inflight : ReadRejects(f)
  \/ \E id \in orphaned : OrphanSettles(id)
  \/ \E f \in inflight : JsonSaldo(f)
  \/ \E f \in inflight : JsonTotal(f)
  \/ ToggleVoice
  \/ \E i \in 1..Len(voiceTimers) : VoiceTimerFires(i)
  \/ \E t \in tasks, delivered \in BOOLEAN : VoiceAgregarSettles(t, delivered)
  \/ \E t \in tasks : TaskAfterPoints(t)
  \/ \E t \in tasks, kind \in HistoryKinds : HistoryServed(t, kind)
  \/ \E t \in tasks : HistorySettles(t)
  \/ \E rid \in RewardIds : ClaimReward(rid)
  \/ \E t \in tasks, kind \in {"served", "rejected"} : ClaimSettles(t, kind)
  \/ \E tab \in Tabs : SwitchTab(tab)

Spec == Init /\ [][Next]_vars

\* The points synchronisation alone: fetchPoints called by init, by the
\* interval and on window focus, every response of the backend allowed.
NextSync ==
  \/ InitStart
  \/ InitAfterPoints
  \/ \E kind \in {"ok", "failed"} : RewardsSettle(kind)
  \/ TimerFires
  \/ Focus
  \/ Tick
  \/ \E f \in inflight, kind \in ReadKinds : SaldoResolves(f, kind)
  \/ \E f \in inflight, kind \in ReadKinds : TotalResolves(f, kind)
  \/ \E f \in inflight : ReadRejects(f)
  \/ \E id \in orphaned : OrphanSettles(id)
  \/ \E f \in inflight : JsonSaldo(f)
  \/ \E f \in inflight : JsonTotal(f)

SpecSync == Init /\ [][NextSync]_vars

\* Every operation of the app, the backend answering every request regularly.
NextRegular ==
  \/ InitStart
  \/ InitAfterPoints
  \/ RewardsSettle("ok")
  \/ TimerFires
  \/ Focus
  \/ Tick
  \/ \E f \in inflight : SaldoResolves(f, "ok")
  \/ \E f \in inflight : TotalResolves(f, "ok")
  \/ \E f \in inflight : JsonSaldo(f)
  \/ \E f \in inflight : JsonTotal(f)
  \/ ToggleVoice
  \/ \E i \in 1..Len(voiceTimers) : VoiceTimerFires(i)
  \/ \E t \in tasks : VoiceAgregarSettles(t, TRUE)
  \/ \E t \in tasks : TaskAfterPoints(t)
  \/ \E t \in tasks : HistoryServed(t, "ok")
  \/ \E t \in tasks : HistorySettles(t)
  \/ \E rid \in RewardIds : ClaimReward(rid)
  \/ \E t \in tasks : ClaimSettles(t, "served")
  \/ \E tab \in Tabs : SwitchTab(tab)

SpecRegular == Init /\ [][NextRegular]_vars

\* The app opened without a stored user identifier.
InitNoUser == Init /\ userEmail = NoUser

NextNoUser ==
  \/ InitStart
  \/ \E kind \in {"ok", "failed"} : RewardsSettle(kind)
  \/ TimerFires
  \/ Focus
  \/ Tick
  \/ ToggleVoice
  \/ \E i \in 1..Len(voiceTimers) : VoiceTimerFires(i)
  \/ \E t \in tasks, delivered \in BOOLEAN : VoiceAgregarSettles(t, delivered)
  \/ \E rid \in RewardIds : ClaimReward(rid)
  \/ \E tab \in Tabs : SwitchTab(tab)

SpecNoUser == InitNoUser /\ [][NextNoUser]_vars

\* The history of a user for whom the backend holds two rows: the tab opened
\* up to MaxRepeats times, every kind of response, rows lost in between.
InitHistory ==
  /\ InitFields
  /\ userEmail = UserMail
  /\ locale = "monthFirst"
  /\ srvHistory \in {p \in DatePayloads : Len(p) = 2}

NextHistory ==
  \/ InitStart
  \/ OpenHistoryTab
  \/ BackendDropsRow
  \/ \E t \in tasks, kind \in HistoryKinds : HistoryServed(t, kind)
  \/ \E t \in tasks : HistorySettles(t)

SpecHistory == InitHistory /\ [][NextHistory]_vars

\* loadHistoryFromBackend applied to every history of DatePayloads and of
\* TextPayloads (where the locale plays no part).
InitDerive ==
  /\ InitFields
  /\ userEmail = UserMail
  /\ \/ srvHistory \in DatePayloads
     \/ srvHistory \in TextPayloads /\ locale = "monthFirst"

NextDerive ==
  \/ InitStart
  \/ OpenHistoryTab
  \/ \E t \in tasks : HistoryServed(t, "ok")
  \/ \E t \in tasks : HistorySettles(t)

SpecDerive == InitDerive /\ [][NextDerive]_vars

\* The voice scan repeated, with and without a user, and the history tab.
InitVoice == InitFields /\ locale = "monthFirst" /\ srvHistory \in SeqsUpTo(DateRows, 1)

NextVoice ==
  \/ InitStart
  \/ Tick
  \/ VoiceClick
  \/ \E i \in 1..Len(voiceTimers) : VoiceTimerFires(i)
  \/ \E t \in tasks, delivered \in BOOLEAN : VoiceAgregarSettles(t, delivered)
  \/ \E t \in tasks : HistoryServed(t, "ok")
  \/ \E t \in tasks : HistorySettles(t)

SpecVoice == InitVoice /\ [][NextVoice]_vars

\* Classification: the app of a user, images uploaded up to MaxRepeats times,
\* before and after a voice award has stored a scan result.
InitScan == Init /\ userEmail = UserMail /\ locale = "monthFirst"

NextScan ==
  \/ InitStart
  \/ Tick
  \/ ToggleVoice
  \/ \E i \in 1..Len(voiceTimers) : VoiceTimerFires(i)
  \/ \E t \in tasks : VoiceAgregarSettles(t, TRUE)
  \/ \E t \in tasks : HistoryServed(t, "ok")
  \/ \E t \in tasks : HistorySettles(t)
  \/ UploadImage
  \/ \E t \in tasks, kind \in ClassifyAnswers : ClassifyResponds(t, kind)
  \/ \E t \in tasks : ClassifyJson(t)

SpecScan == InitScan /\ [][NextScan]_vars

\* The login page: submits of both forms, every answer of the backend, the
\* redirect.  The initial showView('loginView') has run.
InitLogin == Init /\ locale = "monthFirst" /\ userEmail = NoUser

NextLogin ==
  \/ \E f \in RegisterForms : RegisterSubmit(f)
  \/ \E f \in LoginForms : LoginSubmit(f)
  \/ \E r \in authReqs, answer \in AuthAnswers : AuthResponds(r, answer)
  \/ \E r \in authReqs : AuthJson(r)
  \/ \E i \in 1..Len(redirects) : RedirectFires(i)
  \/ \E i \in 1..Len(viewTimers) : ViewTimerFires(i)
  \/ PageTick

SpecLogin == InitLogin /\ [][NextLogin]_vars

\* The views of the login page: showView and goBack called once the page has
\* shown its first view, also while a transition is under way.
InitViews == Init /\ locale = "monthFirst" /\ userEmail = NoUser

NextViews ==
  \/ \E v \in ViewIds \cup {"missingView"}, h \in BOOLEAN :
       currentView # NoView /\ ShowViewCall(v, h)
  \/ currentView # NoView /\ GoBack
  \/ \E i \in 1..Len(viewTimers) : ViewTimerFires(i)
  \/ PageTick

SpecViews == InitViews /\ [][NextViews]_vars

\* Redemptions: the app of a user, rewards claimed up to MaxRepeats times, also
\* while an earlier claim is out, and every answer of the backend to a claim.
InitClaim == Init /\ userEmail = UserMail /\ locale = "monthFirst"

NextClaim ==
  \/ InitStart
  \/ InitAfterPoints
  \/ RewardsSettle("ok")
  \/ Tick
  \/ \E f \in inflight : SaldoResolves(f, "ok")
  \/ \E f \in inflight : TotalResolves(f, "ok")
  \/ \E f \in inflight : JsonSaldo(f)
  \/ \E f \in inflight : JsonTotal(f)
  \/ \E rid \in RewardIds : ClaimClick(rid)
  \/ \E t \in tasks, kind \in {"served", "rejected"} : ClaimSettles(t, kind)
  \/ \E rid \in 1..Len(Premios) : BackendRestocks(rid)
  \/ \E t \in tasks : TaskAfterPoints(t)
  \/ \E t \in tasks : HistoryServed(t, "ok")
  \/ \E t \in tasks : HistorySettles(t)

SpecClaim == InitClaim /\ [][NextClaim]_vars

\* The periodic refresh over a time that holds two periods of the timer: the
\* app of a user, every response regular, window focus at any moment, and the
\* backend crediting the user once from elsewhere.  The interval callback runs
\* when it is due, before the clock moves on; timers fire, responses arrive and
\* continuations run, while focus events and the credit may never come.
InitLive == Init /\ userEmail = UserMail /\ locale = "monthFirst"

NextLive ==
  \/ InitStart
  \/ InitAfterPoints
  \/ RewardsSettle("ok")
  \/ TickLive
  \/ TimerFires
  \/ Focus
  \/ BackendCredits
  \/ \E f \in inflight : SaldoResolves(f, "ok")
  \/ \E f \in inflight : TotalResolves(f, "ok")
  \/ \E f \in inflight : JsonSaldo(f)
  \/ \E f \in inflight : JsonTotal(f)

SpecLive ==
  /\ InitLive /\ [][NextLive]_vars
  /\ WF_vars(InitStart) /\ WF_vars(InitAfterPoints) /\ WF_vars(RewardsSettle("ok"))
  /\ WF_vars(TickLive) /\ WF_vars(TimerFires)
  /\ WF_vars(\E f \in inflight : SaldoResolves(f, "ok"))
  /\ WF_vars(\E f \in inflight : TotalResolves(f, "ok"))
  /\ WF_vars(\E f \in inflight : JsonSaldo(f))
  /\ WF_vars(\E f \in inflight : JsonTotal(f))

\* ---------------------------------------------------------------------------
\* Properties of the points synchronisation
\* ---------------------------------------------------------------------------

C2_DispatchesWindowApart ==
  \A i, j \in 1..Len(dispatchTimes) :
    i < j => dispatchTimes[j] - dispatchTimes[i] >= THROTTLE_WINDOW

\* Two pairs were dispatched, the second has completed, and a later call was
\* turned away by the window alone.
C2_SecondDispatchThenThrottled ==
  /\ Len(dispatchTimes) >= 2
  /\ callResult = "throttled"
  /\ inflight = {}

\* C3: balance and cumulativeTotal always come from the same refresh, in the
\* fields and in what the points display was last given.
C3_PairFromOneRefresh ==
  /\ balSrc = totSrc
  /\ shown.balSrc = shown.totSrc

\* A second refresh has replaced the pair the first one stored.
C3_SecondRefreshStored ==
  /\ settled.outcome = "ok"
  /\ settled.id >= 2
  /\ balSrc = settled.id
  /\ totSrc = settled.id
  /\ shown.by = "fetchPoints"

\* C4: a refresh that fails (a read rejected, or a body that cannot be parsed)
\* is caught inside fetchPoints and leaves balance and cumulativeTotal as they
\* were when it started.
C4_FailedRefreshKeepsPoints ==
  settled.cause # "none" =>
    /\ settled.outcome = "caught"
    /\ settled.post = settled.pre
    /\ <<userPoints, userPointsTotal>> = settled.pre

\* A refresh failed after an earlier one had stored the backend's values.
C4_FailedAfterStoredValues ==
  /\ settled.cause \in {"rejected", "unparseable"}
  /\ settled.id >= 2
  /\ settled.pre = <<Num(srvSaldo), Num(srvTotal)>>

\* C5: when either read answers with an error response (a parseable body with
\* an error field and no points field), balance and cumulativeTotal keep their
\* previous values; here, at the least, the field whose read was answered so.
C5_ErrorResponseKeepsPoints ==
  /\ settled.saldoKind = "error" => settled.post[1] = settled.pre[1]
  /\ settled.totalKind = "error" => settled.post[2] = settled.pre[2]

\* C6: after a successful refresh each field is the number its response
\* carried, and exactly 0 when the response's field is missing or not a
\* number; neither field ever holds a non-number.
C6_CoercedToNumberOrZero ==
  /\ userPoints.tag = "num"
  /\ userPointsTotal.tag = "num"
  /\ settled.outcome = "ok" =>
       /\ settled.post[1] = (IF settled.saldoVal.tag = "num" THEN settled.saldoVal ELSE Num(0))
       /\ settled.post[2] = (IF settled.totalVal.tag = "num" THEN settled.totalVal ELSE Num(0))

\* C7: _fetchingPoints is true exactly between the dispatch of a read pair and
\* its settlement, by success or by failure.
C7_FlagIffInFlight == fetchingPoints <=> (inflight # {})

\* A refresh has failed and the flag is back to false.
C7_FlagClearedAfterFailure ==
  /\ settled.outcome = "caught"
  /\ ~fetchingPoints
  /\ inflight = {}

\* C8: with a backend whose cumulative total never decreases, userPointsTotal
\* never decreases over any sequence of operations; here, at the least, from
\* one number to the next.
C8_TotalNeverDecreases ==
  [][(userPointsTotal.tag = "num" /\ userPointsTotal'.tag = "num")
       => userPointsTotal'.n >= userPointsTotal.n]_vars

C10_NoUserNoSync ==
  userEmail = NoUser =>
    /\ dispatchTimes = <<>>
    /\ inflight = {}
    /\ sent.historial = 0
    /\ \A t \in tasks : t.pc # "history"
    /\ userPoints = Num(0)
    /\ userPointsTotal = Num(0)
    /\ ~fetchingPoints
    /\ lastPointsFetch = 0
    /\ serverHistory = <<>>
    /\ settled = NoSettled

\* Without a user the voice flow has called both, after recording its scan.
C10_VoiceFlowWithoutUser ==
  /\ userEmail = NoUser
  /\ callResult = "nouser"
  /\ Len(myRecyclingHistory) >= 1
  /\ ~isListening
  /\ tasks = {}

\* ---------------------------------------------------------------------------
\* Properties of the history
\* ---------------------------------------------------------------------------

\* How often e occurs in the sequence q.
Occurrences(q, e) == Cardinality({i \in 1..Len(q) : q[i] = e})

\* The entries of the rows of a response, in the order of the response.
EntriesOf(raw) == [i \in 1..Len(raw) |-> DeriveEntry(raw[i], locale)]

\* C11: after a successful loadHistoryFromBackend the server history consists
\* exactly of the entries derived from that response: as many as it has rows,
\* each as often as the response holds it, and nothing of what was held before.
C11_HistoryReplaced ==
  histSettled.kind = "ok" =>
    /\ serverHistory = histSettled.post
    /\ Len(serverHistory) = Len(histSettled.raw)
    /\ \A i \in 1..Len(serverHistory) :
         Occurrences(serverHistory, serverHistory[i])
           = Occurrences(EntriesOf(histSettled.raw), serverHistory[i])

\* A second successful load brought a different history: an entry of the first
\* is gone.
C11_SecondLoadDroppedEntry ==
  /\ histSettled.kind = "ok"
  /\ histSettled.nth >= 2
  /\ Len(histSettled.pre) = 2
  /\ Len(serverHistory) = 1
  /\ \E i \in 1..2 : Occurrences(serverHistory, histSettled.pre[i]) = 0

\* C12: a loadHistoryFromBackend that fails (fetch rejected, body unparseable,
\* body that is no list, row that cannot be processed) leaves the server
\* history exactly as it was.
C12_FailedLoadKeepsHistory ==
  histSettled.kind \notin {"none", "ok"} =>
    /\ histSettled.post = histSettled.pre
    /\ serverHistory = histSettled.pre

\* C13: after a successful load every entry whose fecha is 'Ahora' stands
\* ahead of every entry with a date.
C13_AhoraAheadOfDated ==
  \A i, j \in 1..Len(serverHistory) :
    (serverHistory[i].fecha.tag = "ahora" /\ serverHistory[j].fecha.tag = "locale") => i < j

\* Month, day and second of the backend date an entry's fecha was printed from.
DateOfEntry(e) ==
  IF locale = "monthFirst"
    THEN (e.fecha.first * 31 + e.fecha.second) * 86400 + e.fecha.s
    ELSE (e.fecha.second * 31 + e.fecha.first) * 86400 + e.fecha.s

\* C14: after a successful load, of two entries with a backend date the one
\* with the later date stands first; here, at the least, in a browser whose
\* locale prints dates the way the parser reads them.
C14_LaterDateFirst ==
  locale = "monthFirst" =>
    \A i, j \in 1..Len(serverHistory) :
      (i < j /\ serverHistory[i].fecha.tag = "locale" /\ serverHistory[j].fecha.tag = "locale")
        => DateOfEntry(serverHistory[i]) >= DateOfEntry(serverHistory[j])

\* The readings of a detalle that C15 names, written as splits of the text.
AllDigits(s, a, b) == a <= b /\ \A x \in a..b : s[x] \in {"0", "1", "2", "3", "4", "5", "6", "7", "8", "9"}

AllSpaces(s, a, b) == \A x \in a..b : s[x] \in {" ", "\t", "\n"}

FigureOf(c) ==
  CASE c = "0" -> 0 [] c = "1" -> 1 [] c = "2" -> 2 [] c = "3" -> 3 [] c = "4" -> 4
    [] c = "5" -> 5 [] c = "6" -> 6 [] c = "7" -> 7 [] c = "8" -> 8 [] c = "9" -> 9

\* the number written by the figures a..b of s, of at most three figures
NumberAt(s, a, b) ==
  CASE b = a -> FigureOf(s[a])
    [] b = a + 1 -> 10 * FigureOf(s[a]) + FigureOf(s[b])
    [] b = a + 2 -> 100 * FigureOf(s[a]) + 10 * FigureOf(s[a + 1]) + FigureOf(s[b])

ReadsPunto(s, k) ==
  /\ k + 4 <= Len(s)
  /\ s[k] \in {"p", "P"} /\ s[k + 1] \in {"u", "U"} /\ s[k + 2] \in {"n", "N"}
  /\ s[k + 3] \in {"t", "T"} /\ s[k + 4] \in {"o", "O"}

ReadsPts(s, k) ==
  /\ k + 2 <= Len(s)
  /\ s[k] \in {"p", "P"} /\ s[k + 1] \in {"t", "T"} /\ s[k + 2] \in {"s", "S"}

ReadsGasto(s, i) ==
  /\ i + 4 <= Len(s)
  /\ s[i] \in {"g", "G"} /\ s[i + 1] \in {"a", "A"} /\ s[i + 2] \in {"s", "S"}
  /\ s[i + 3] \in {"t", "T"} /\ s[i + 4] \in {"o", "O", "ó", "Ó"}

\* "+" at i, figures up to j - 1, spaces (or none) up to k - 1, "punto" at k; i < j <= k
EarnSplit(s, i, j, k) ==
  /\ s[i] = "+" /\ AllDigits(s, i + 1, j - 1)
  /\ AllSpaces(s, j, k - 1) /\ ReadsPunto(s, k)

\* "gasto" at i, spaces up to j - 1, figures up to k - 1, spaces (or none) up to m - 1,
\* "pts" at m; i + 5 < j < k <= m
RedeemSplit(s, i, j, k, m) ==
  /\ ReadsGasto(s, i) /\ AllSpaces(s, i + 5, j - 1)
  /\ AllDigits(s, j, k - 1)
  /\ AllSpaces(s, k, m - 1) /\ ReadsPts(s, m)

\* a sign or none at i, digits up to j - 1 and no further
SignedSplit(s, i, j) ==
  /\ \/ AllDigits(s, i, j - 1)
     \/ s[i] \in {"+", "-"} /\ AllDigits(s, i + 1, j - 1)
  /\ j > Len(s) \/ ~AllDigits(s, j, j)

ClaimedDelta(accion, s) ==
  LET n == Len(s)
      Earn(i) == \E j \in (i + 2)..(n + 1) : \E k \in j..n : EarnSplit(s, i, j, k)
      Redeem(i) ==
        \E j \in (i + 6)..n : \E k \in (j + 1)..n : \E m \in k..n : RedeemSplit(s, i, j, k, m)
      Signed(i) == \E j \in (i + 1)..(n + 1) : SignedSplit(s, i, j)
  IN CASE accion = "escaneo" ->
            IF \E i \in 1..n : Earn(i)
              THEN LET i == CHOOSE i \in 1..n : Earn(i) /\ \A h \in 1..(i - 1) : ~Earn(h)
                       j == CHOOSE j \in (i + 2)..(n + 1) : \E k \in j..n : EarnSplit(s, i, j, k)
                   IN  NumberAt(s, i + 1, j - 1)
              ELSE 0
       [] accion = "canje" ->
            IF \E i \in 1..n : Redeem(i)
              THEN LET i == CHOOSE i \in 1..n : Redeem(i) /\ \A h \in 1..(i - 1) : ~Redeem(h)
                       j == CHOOSE j \in (i + 6)..n :
                              \E k \in (j + 1)..n : \E m \in k..n : RedeemSplit(s, i, j, k, m)
                       k == CHOOSE k \in (j + 1)..n : \E m \in k..n : RedeemSplit(s, i, j, k, m)
                   IN  0 - NumberAt(s, j, k - 1)
              ELSE 0
       [] OTHER ->
            IF \E i \in 1..n : Signed(i)
              THEN LET i == CHOOSE i \in 1..n : Signed(i) /\ \A h \in 1..(i - 1) : ~Signed(h)
                       j == CHOOSE j \in (i + 1)..(n + 1) : SignedSplit(s, i, j)
                   IN  IF s[i] = "-" THEN 0 - NumberAt(s, i + 1, j - 1)
                       ELSE IF s[i] = "+" THEN NumberAt(s, i + 1, j - 1)
                       ELSE NumberAt(s, i, j - 1)
              ELSE 0

\* C15: the delta of every entry is the reading of its detalle that belongs to
\* its accion, 0 when the detalle is empty or has no such reading; the four
\* examples give 5, -150, -20 and 0.
C15_DeltaByKind ==
  \A i \in 1..Len(serverHistory) :
    LET e == serverHistory[i]
    IN /\ e.delta = ClaimedDelta(e.accion, e.detalle)
       /\ (e.accion = "escaneo" /\ e.detalle = TextEscaneo) => e.delta = 5
       /\ (e.accion = "canje" /\ e.detalle = TextCanje) => e.delta = 0 - 150
       /\ (e.accion = "otro" /\ e.detalle = TextOtro) => e.delta = 0 - 20
       /\ e.detalle = <<>> => e.delta = 0

\* The redeem example has been loaded.
C15_RedeemExampleLoaded ==
  \E i \in 1..Len(serverHistory) :
    /\ serverHistory[i].accion = "canje"
    /\ serverHistory[i].detalle = TextCanje
    /\ serverHistory[i].delta = 0 - 150

\* C16: the badge of every entry is one sign followed by the figures of the
\* size of delta: "+" when delta >= 0, "-" when delta < 0, so it starts with
\* "-" exactly when delta is negative and has no second sign.
C16_BadgeOneSign ==
  \A i \in 1..Len(serverHistory) :
    LET e == serverHistory[i]
        b == e.badge
    IN /\ Len(b) >= 2
       /\ (e.delta >= 0) => b[1] = "+"
       /\ (b[1] = "-") <=> (e.delta < 0)
       /\ AllDigits(b, 2, Len(b))
       /\ NumberAt(b, 2, Len(b)) = (IF e.delta < 0 THEN 0 - e.delta ELSE e.delta)

\* A loaded history with a gain and a loss, each with its badge.
C16_GainAndLossLoaded ==
  \E i, j \in 1..Len(serverHistory) :
    /\ serverHistory[i].delta = 5 /\ serverHistory[i].badge = <<"+", "5">>
    /\ serverHistory[j].delta = 0 - 4 /\ serverHistory[j].badge = <<"-", "4">>

\* C17: whatever the detalle says, an entry of accion "escaneo" has no negative
\* delta and an entry of accion "canje" has no positive delta.
C17_SignAgreesWithKind ==
  \A i \in 1..Len(serverHistory) :
    /\ serverHistory[i].accion = "escaneo" => serverHistory[i].delta >= 0
    /\ serverHistory[i].accion = "canje" => serverHistory[i].delta <= 0

\* A redeem whose detalle names a gain has been loaded, and counts for nothing.
C17_RedeemWithGainText ==
  \E i \in 1..Len(serverHistory) :
    /\ serverHistory[i].accion = "canje"
    /\ serverHistory[i].detalle = <<"+", "5", " ", "p", "u", "n", "t", "o", "s">>
    /\ serverHistory[i].delta = 0

\* C18: with a user every call of loadHistoryFromBackend sends a request of its
\* own, whether or not another is out and however soon after the last one; and
\* after a response with rows has arrived the history is the entries of that
\* response, the last to arrive, whichever request it answers.
C18_EveryCallDispatchesLastArrivalWins ==
  /\ sent.historial = clicks.tab
  /\ Cardinality({t \in tasks : t.pc \in {"history", "historyResp"}}) + histSettled.nth = clicks.tab
  /\ histSettled.kind = "ok" => serverHistory = DeriveHistory(histSettled.raw, locale)

\* Two requests were out together; the answer to the second arrived first, and
\* the answer to the first, holding older rows, arrived last and is what the
\* history now holds.
C18_FirstIssuedArrivedLast ==
  /\ clicks.tab = 2 /\ sent.historial = 2
  /\ histSettled.nth = 2 /\ histSettled.kind = "ok"
  /\ tasks = {}
  /\ \A u \in 1..(nextTask - 1) : histSettled.id <= u
  /\ histSettled.pre # histSettled.post
  /\ Len(histSettled.raw) > Len(srvHistory)
  /\ serverHistory = histSettled.post

\* ---------------------------------------------------------------------------
\* Properties of the rendered history and the local log
\* ---------------------------------------------------------------------------

\* The rows q show the server history sh, row for entry.
ShowsServer(q, sh) ==
  /\ Len(q) = Len(sh)
  /\ \A i \in 1..Len(q) :
       /\ q[i].src = "server"
       /\ q[i].accion = sh[i].accion /\ q[i].badge = sh[i].badge
       /\ q[i].delta = sh[i].delta /\ q[i].fecha = sh[i].fecha

\* The rows q show the local log mh, each scan as a gain made now.
ShowsLocal(q, mh) ==
  /\ Len(q) = Len(mh)
  /\ \A i \in 1..Len(q) :
       /\ q[i].src = "local"
       /\ q[i].accion = "escaneo" /\ q[i].delta = mh[i].points
       /\ q[i].badge[1] = "+" /\ NumberAt(q[i].badge, 2, Len(q[i].badge)) = mh[i].points
       /\ q[i].fecha.tag = "ahora"

\* C19: the rows on screen never come from both sources, and whenever they are
\* drawn anew they are the server history if it has an entry, and the local log
\* in the server's shape only if it has none.
C19_RenderedFromOneSource ==
  /\ [](\A i, j \in 1..Len(historyShown) : historyShown[i].src = historyShown[j].src)
  /\ [][historyShown' # historyShown =>
          IF Len(serverHistory') # 0
            THEN ShowsServer(historyShown', serverHistory')
            ELSE ShowsLocal(historyShown', myRecyclingHistory')]_vars

\* The server history is on screen while the local log holds a scan.
C19_ServerShownDespiteLocalLog ==
  /\ Len(myRecyclingHistory) > 0
  /\ Len(serverHistory) > 0
  /\ ShowsServer(historyShown, serverHistory)

\* C20: whenever the local log changes it has gained one entry, made now, ahead
\* of the entries it held, so the log runs from the most recent scan to the
\* oldest; the step leaves the balance, the total and the server history as
\* they were, and the gate of fetchPoints too unless the call of fetchPoints
\* that follows in the same handler dispatches.
C20_OneEntryAtFront ==
  /\ [](\A i, j \in 1..Len(myRecyclingHistory) :
          i < j => myRecyclingHistory[i].id >= myRecyclingHistory[j].id)
  /\ [][myRecyclingHistory' # myRecyclingHistory =>
          /\ Len(myRecyclingHistory') = Len(myRecyclingHistory) + 1
          /\ Tail(myRecyclingHistory') = myRecyclingHistory
          /\ Head(myRecyclingHistory').id = now
          /\ Head(myRecyclingHistory').time = "Ahora"
          /\ UNCHANGED <<userPoints, userPointsTotal, serverHistory>>
          /\ callResult' # "dispatched" => UNCHANGED <<fetchingPoints, lastPointsFetch>>]_vars

\* Two scans made at different times are in the log, the later one first.
C20_LaterScanFirst ==
  /\ Len(myRecyclingHistory) = 2
  /\ myRecyclingHistory[1].id > myRecyclingHistory[2].id

\* ---------------------------------------------------------------------------
\* Properties of the flows around the points synchronisation
\* ---------------------------------------------------------------------------

\* C21: when a dispatched fetchPoints calls updatePointsDisplay(), it has
\* already set _fetchingPoints back to false.
C21_FlagClearedBeforeRender == shown.by = "fetchPoints" => ~shown.fetching

\* C22: when the redeem request comes back without the backend having redeemed
\* (an error body, or a failure in transport), the step leaves the stock of
\* every reward, the balance and the total as they were, and sends no read of
\* the points and no request for the history.
C22_RejectedClaimChangesNothing ==
  [][((\E t \in tasks : t.kind = "claim" /\ t.pc = "canjear" /\ t \notin tasks')
        /\ srvSaldo' = srvSaldo)
       => /\ UNCHANGED <<rewards, userPoints, userPointsTotal, serverHistory>>
          /\ UNCHANGED <<inflight, dispatchTimes, gateVars, sent>>
          /\ tasks' \subseteq tasks]_vars

\* Two claims were sent and both have run to their end with every response
\* delivered: the backend redeemed one pencil and answered the other with an
\* error.
C22_ErrorAnswerAfterRedemption ==
  /\ sent.canjear = 2 /\ tasks = {} /\ faults = 0
  /\ Len(srvHistory) = 1
  /\ srvSaldo + Premios[3].puntos_necesarios.n = SrvSaldo0
  /\ rewards[3].stock = Num(0)

\* C23: when claimReward runs to its end after the only redemption made so far,
\* userPoints is the balance the backend holds after it, and the balance
\* renderRewards() computes the buttons from is that balance.
C23_BalanceRealAfterClaim ==
  [][(/\ sent.canjear = 1
      /\ \E t \in tasks : /\ t.kind = "claim" /\ t.pc = "historyResp"
                          /\ \A u \in tasks' : u.id # t.id)
       => /\ userPoints' = Num(srvSaldo')
          /\ rewardsShown'.bal = Num(srvSaldo')]_vars

\* C25: a call of claimReward sends a redeem request only if the reward is in
\* the loaded list, its local stock is above 0, the local balance is a number
\* not below its cost and a user is stored; a call that sends none changes
\* nothing.
C25_ClaimSentOnlyWhenAffordable ==
  [][clicks'.claim # clicks.claim =>
       /\ sent'.canjear # sent.canjear =>
            \E r \in 1..Len(rewards) :
              /\ \E t \in tasks' \ tasks : t.rid = r
              /\ rewards[r].stock.tag = "num" /\ rewards[r].stock.n > 0
              /\ userPoints.tag = "num" /\ userPoints.n >= rewards[r].points.n
              /\ userEmail # NoUser
       /\ sent'.canjear = sent.canjear =>
            UNCHANGED <<tasks, uiVars, gateVars, pointVars, fetchVars, srvVars, rewardsShown>>]_vars

\* The claim request of handler t comes back with the backend having redeemed.
RedeemedStep(t) ==
  /\ t \in tasks /\ t.kind = "claim" /\ t.pc = "canjear" /\ t \notin tasks'
  /\ srvSaldo' < srvSaldo

\* C26, as the code has it: the local stock of every reward is a number not
\* below 0; a redemption leaves the redeemed reward with one unit less when it
\* had any and with 0 when an overlapping redemption had already taken its last
\* one, and leaves every other reward's stock alone; nothing but the loading of
\* the list and a redemption changes a stock.
C26_StockOneLessOrZero ==
  /\ [](\A r \in 1..Len(rewards) : rewards[r].stock.tag = "num" /\ rewards[r].stock.n >= 0)
  /\ [][\A t \in tasks : RedeemedStep(t) =>
          /\ rewards'[t.rid].stock.n =
               (IF rewards[t.rid].stock.n > 0 THEN rewards[t.rid].stock.n - 1 ELSE 0)
          /\ \A r \in 1..Len(rewards) : r # t.rid => rewards'[r] = rewards[r]]_vars
  /\ [][rewards' # rewards => (rewards = <<>> \/ \E t \in tasks : RedeemedStep(t))]_vars

\* C26, as stated: every redemption lowers the local stock of the redeemed
\* reward by exactly 1.
C26_StockLoweredByOne ==
  [][\A t \in tasks : RedeemedStep(t) =>
       rewards'[t.rid].stock.n = rewards[t.rid].stock.n - 1]_vars

\* The backend has redeemed the pencil twice, the second time on a claim sent
\* while the first was out, and the local stock of the pencil, 1 when both were
\* sent, is 0.
C26_TwoRedemptionsOfLastUnit ==
  /\ Len(rewards) = 3 /\ rewards[3].stock = Num(0)
  /\ sent.canjear = 2
  /\ Len(srvHistory) = 2
  /\ srvSaldo + 2 * Premios[3].puntos_necesarios.n = SrvSaldo0
  /\ \A t \in tasks : t.pc # "canjear"

\* The balance on screen is not the one the backend holds, no read is out, and
\* the timer is running with two firings still to come within the time the
\* clock covers: the first may fall in the window of a read sent before the
\* backend changed the balance.
StaleWithTimer ==
  /\ userEmail # NoUser
  /\ initPc = "done"
  /\ \E k \in 0..LiveTicks :
       /\ StartNow + k * TickMs >= timerDue
       /\ StartNow + k * TickMs >= now
       /\ k + 2 <= LiveTicks
  /\ inflight = {}
  /\ userPoints # Num(srvSaldo)

C29_OneAwardPerActivation ==
  /\ [](/\ clicks.voice = Len(voiceTimers) + sent.agregar
        /\ sent.agregar = Cardinality({t \in tasks : t.kind = "voice" /\ t.pc = "agregar"})
                            + Len(myRecyclingHistory))
  /\ [][/\ clicks'.voice # clicks.voice =>
             voiceTimers' = Append(voiceTimers, now + VOICE_DELAY_MS)
        /\ (isListening /\ ~isListening' /\ tasks' = tasks) => voiceTimers' = voiceTimers
        /\ sent'.agregar # sent.agregar =>
             /\ sent'.agregar = sent.agregar + 1
             /\ \E i \in 1..Len(voiceTimers) :
                  voiceTimers[i] <= now /\ voiceTimers' = RemoveAt(voiceTimers, i)]_vars

\* Two activations were made at the start, the first switched off before the
\* second, and both awards have run: two requests, two entries, each made at
\* the first moment after their 3 seconds.
C29_BothAwardsAfterSwitchOff ==
  /\ clicks.voice = 2 /\ sent.agregar = 2 /\ voiceTimers = <<>>
  /\ Len(myRecyclingHistory) = 2
  /\ \A i \in 1..2 : myRecyclingHistory[i].id = StartNow + TickMs

\* C24: when the classifier's answer to an image carries points greater than
\* 0, handling it shows that result in the panel, raises no alert, and calls
\* fetchPoints().
C24_ClassifiedResultShownAndRefreshed ==
  [][\A t \in tasks :
       (t.kind = "classify" /\ t.pc = "json" /\ t.resp.kind = "points" /\ t \notin tasks') =>
         /\ scanShown'.visible
         /\ scanShown'.item = ClassifyBody("points").item
         /\ scanAlerts' = scanAlerts
         /\ callResult' # "none"]_vars

\* C28: on the login page the stored identifier is written, and a redirect
\* set, only by the step that ends a login or register request answered with
\* an ok status and a body without error; the identifier stored is the one
\* that request carried, and a redirect is never set without the write.  A
\* submit with a blank required field or a confirmation that differs sends
\* nothing and changes neither, and so does every request that is rejected or
\* fails.
OkWithoutError(r) == r.pc = "json" /\ r.resp \in {"ok", "okNull"}

BlankOrMismatch(f) ==
  \/ f.form = "register" /\ (Trim(f.nombre) = <<>> \/ Trim(f.correo) = <<>> \/ f.password = <<>>
                              \/ f.password # f.confirm)
  \/ f.form = "login" /\ (Trim(f.correo) = <<>> \/ f.password = <<>>)

C28_StoredOnlyAfterAcceptedRequest ==
  [][/\ (userEmail' # userEmail \/ Len(redirects') > Len(redirects)) =>
          \E r \in authReqs : /\ OkWithoutError(r)
                              /\ \A q \in authReqs' : q.id # r.id
                              /\ userEmail' = r.correo
     /\ \A r \in authReqs :
          ((\A q \in authReqs' : q.id # r.id) /\ location' = "login" /\ ~OkWithoutError(r)) =>
             UNCHANGED <<userEmail, redirects>>
     /\ (submitted' # submitted /\ BlankOrMismatch(submitted')) =>
             UNCHANGED <<userEmail, redirects, authReqs, sent>>
     /\ (sent' # sent) => ~BlankOrMismatch(submitted')]_vars

\* A register submit whose confirmation differs was refused after an earlier
\* login had been accepted: the identifier of the login is still stored and
\* its redirect is still the only one pending.
C28_RefusedAfterAccepted ==
  /\ userEmail = UserMail /\ Len(redirects) = 1 /\ location = "login"
  /\ submitted.form = "register" /\ submitted.password # submitted.confirm
  /\ sent.auth = 1 /\ authReqs = {}

\* C30: once every pending callback of the ViewManager has run, exactly one
\* registered view is active, exactly that view is displayed, and it is the
\* one currentView names; also when showView or goBack was called again while
\* the transition of an earlier call was under way.
C30_OneViewOnceTimersRan ==
  (viewTimers = <<>> /\ currentView # NoView) =>
    /\ {v \in ViewIds : views[v].isActive} = {currentView}
    /\ {v \in ViewIds : views[v].display = "block"} = {currentView}

====
